---- MODULE Spec2Model ----
(***************************************************************************)
(* The transactional document store of v1/storage: the tree engine         *)
(* (v1/storage/inmem) and the arena engine (v1/storage/arena) behind the   *)
(* same store contract.                                                    *)
(*                                                                         *)
(* Values are tagged records [t, v]: t is the Go dynamic type, v the       *)
(* payload.  Go maps are functions from keys to values, Go slices are      *)
(* sequences.  Go mutates maps and slices in place; the model writes the   *)
(* resulting value.                                                        *)
(***************************************************************************)
EXTENDS Integers, Sequences, FiniteSets, TLC

Null == [t |-> "null", v |-> 0]
BoolV(b) == [t |-> "bool", v |-> b]
IntV(n) == [t |-> "int", v |-> n]
StrV(s) == [t |-> "str", v |-> s]
ObjV(f) == [t |-> "obj", v |-> f]
ArrV(s) == [t |-> "arr", v |-> s]

\* The value a call leaves when it panics (an unrecovered Go run-time panic).
PanicV == [t |-> "panic", v |-> 0]

EmptyMap == [k \in {} |-> Null]
EmptyObj == ObjV(EmptyMap)

IsScalar(x) == x.t \in {"null", "bool", "int", "str"}

\* Results of store calls: err is "OK" or the error kind, val the value read.
Ok(x) == [err |-> "OK", val |-> x]
Err(e) == [err |-> e, val |-> Null]

-----------------------------------------------------------------------------
(* Paths: sequences of segments.                                           *)

RootPath == <<>>

\* Path.Equal
Equal(p, other) ==
    /\ Len(p) = Len(other)
    /\ \A i \in 1..Len(p) : p[i] = other[i]

\* Path.HasPrefix: p starts with other.
HasPrefix(p, other) ==
    /\ Len(other) <= Len(p)
    /\ Equal(SubSeq(p, 1, Len(other)), other)

\* Path.String for segments of unreserved bytes: "/" before every segment,
\* "/" alone for the root.  The string is kept as its sequence of pieces.
RECURSIVE PathString(_)
PathString(p) ==
    IF Len(p) = 0 THEN <<"/">>
    ELSE IF Len(p) = 1 THEN <<"/", p[1]>>
    ELSE <<"/", p[1]>> \o PathString(Tail(p))

\* strconv.Atoi / strconv.Itoa on the decimal segments the model uses.
DigitVal == ("0" :> 0) @@ ("1" :> 1) @@ ("2" :> 2) @@ ("3" :> 3) @@ ("4" :> 4)
IsDecimal(s) == s \in DOMAIN DigitVal
Atoi(s) == DigitVal[s]
Itoa(n) == CHOOSE s \in DOMAIN DigitVal : DigitVal[s] = n

Last(s) == s[Len(s)]
Front(s) == SubSeq(s, 1, Len(s) - 1)
Suffix(p, n) == SubSeq(p, n + 1, Len(p))

-----------------------------------------------------------------------------
(* internal/ptr: walking a Go value along a path.                          *)

\* ptr.ValidateArrayIndex: the position, or -1 for NotFound.
ValidateArrayIndex(arr, s) ==
    IF IsDecimal(s) /\ Atoi(s) < Len(arr) THEN Atoi(s) ELSE -1

RECURSIVE Ptr(_, _)
Ptr(data, path) ==
    IF Len(path) = 0 THEN Ok(data)
    ELSE LET key == Head(path) IN
         CASE data.t = "obj" ->
                IF key \in DOMAIN data.v THEN Ptr(data.v[key], Tail(path))
                ELSE Err("NotFound")
           [] data.t = "arr" ->
                LET pos == ValidateArrayIndex(data.v, key) IN
                IF pos < 0 THEN Err("NotFound")
                ELSE Ptr(data.v[pos + 1], Tail(path))
           [] OTHER -> Err("NotFound")

\* data with the value at path replaced by x (the effect of writing through
\* the pointer Ptr returns); path must exist in data.
RECURSIVE SetAt(_, _, _)
SetAt(data, path, x) ==
    IF Len(path) = 0 THEN x
    ELSE LET key == Head(path) IN
         IF data.t = "obj"
         THEN ObjV([data.v EXCEPT ![key] = SetAt(data.v[key], Tail(path), x)])
         ELSE ArrV([data.v EXCEPT ![Atoi(key) + 1] =
                      SetAt(data.v[Atoi(key) + 1], Tail(path), x)])

MapPut(m, k, x) == [j \in DOMAIN m \cup {k} |-> IF j = k THEN x ELSE m[j]]
MapDel(m, k) == [j \in DOMAIN m \ {k} |-> m[j]]

InsertAt(s, pos, x) == SubSeq(s, 1, pos) \o <<x>> \o SubSeq(s, pos + 1, Len(s))
RemoveAt(s, pos) == SubSeq(s, 1, pos) \o SubSeq(s, pos + 2, Len(s))

-----------------------------------------------------------------------------
(* Tree engine (v1/storage/inmem/txn.go): pending updates.                 *)

\* updateRaw
UpdateRaw(p, x, rm) == [path |-> p, value |-> x, remove |-> rm]

\* The result of newUpdate*: an update or an error.
UpdOk(u) == [err |-> "OK", upd |-> u]
UpdErr(e) == [err |-> e, upd |-> UpdateRaw(<<>>, Null, FALSE)]

\* comparableEquals: strictly typed scalar equality (Go int is not a case).
comparableEquals(a, b) ==
    CASE a.t = "null" -> b.t = "null"
      [] a.t = "bool" -> b.t = "bool" /\ b.v = a.v
      [] a.t = "str" -> b.t = "str" /\ b.v = a.v
      [] OTHER -> FALSE

\* newUpdateRaw, newUpdateArray and newUpdateObject; idx counts from 0 as in
\* the source, path[idx + 1] is the source's path[idx].
RECURSIVE newUpdateRaw(_, _, _, _, _)
newUpdateArray(data, op, path, idx, value) ==
    LET seg == path[idx + 1]
        arr == data.v
    IN  IF idx = Len(path) - 1
        THEN IF seg = "-" \/ (IsDecimal(seg) /\ Atoi(seg) = Len(arr))
             THEN IF op # "add" THEN UpdErr("InvalidPatch")
                  ELSE UpdOk(UpdateRaw(Front(path), ArrV(Append(arr, value)), FALSE))
             ELSE LET pos == ValidateArrayIndex(arr, seg) IN
                  IF pos < 0 THEN UpdErr("NotFound")
                  ELSE CASE op = "add" ->
                              UpdOk(UpdateRaw(Front(path), ArrV(InsertAt(arr, pos, value)), FALSE))
                         [] op = "remove" ->
                              UpdOk(UpdateRaw(Front(path), ArrV(RemoveAt(arr, pos)), FALSE))
                         [] OTHER ->
                              UpdOk(UpdateRaw(Front(path), ArrV([arr EXCEPT ![pos + 1] = value]), FALSE))
        ELSE LET pos == ValidateArrayIndex(arr, seg) IN
             IF pos < 0 THEN UpdErr("NotFound")
             ELSE newUpdateRaw(arr[pos + 1], op, path, idx + 1, value)

newUpdateObject(data, op, path, idx, value) ==
    LET seg == path[idx + 1] IN
    IF idx = Len(path) - 1
    THEN IF op \in {"replace", "remove"} /\ seg \notin DOMAIN data.v
         THEN UpdErr("NotFound")
         ELSE UpdOk(UpdateRaw(path, value, op = "remove"))
    ELSE IF seg \in DOMAIN data.v
         THEN newUpdateRaw(data.v[seg], op, path, idx + 1, value)
         ELSE UpdErr("NotFound")

newUpdateRaw(data, op, path, idx, value) ==
    CASE data.t \in {"null", "bool", "str"} -> UpdErr("NotFound")
      [] data.t = "obj" -> newUpdateObject(data, op, path, idx, value)
      [] data.t = "arr" -> newUpdateArray(data, op, path, idx, value)
      [] OTHER -> UpdErr("Internal")

\* store.newUpdate with returnASTValuesOnRead off.
newUpdate(data, op, path, idx, value) == newUpdateRaw(data, op, path, idx, value)

\* updateRaw.Apply: the document after the update; PanicV where the source
\* panics (missing parent, type assertion, Atoi error, index out of range).
Apply(u, data) ==
    IF Len(u.path) = 0 THEN u.value
    ELSE LET pp == Front(u.path)
             parent == Ptr(data, pp)
             key == Last(u.path)
         IN  IF parent.err # "OK" THEN PanicV
             ELSE IF u.remove
             THEN IF parent.val.t # "obj" THEN PanicV
                  ELSE SetAt(data, pp, ObjV(MapDel(parent.val.v, key)))
             ELSE CASE parent.val.t = "obj" ->
                         SetAt(data, pp, ObjV(MapPut(parent.val.v, key, u.value)))
                    [] parent.val.t = "arr" ->
                         IF ~IsDecimal(key) \/ Atoi(key) >= Len(parent.val.v)
                         THEN PanicV
                         ELSE SetAt(data, pp,
                                    ArrV([parent.val.v EXCEPT ![Atoi(key) + 1] = u.value]))
                    [] OTHER -> data

\* updateRaw.Relative
Relative(u, path) == [u EXCEPT !.path = Suffix(u.path, Len(path))]

-----------------------------------------------------------------------------
(* Tree engine: the transaction (v1/storage/inmem/txn.go).                 *)

pathIndexThreshold == 16

\* The path index: on is "pathIndex != nil", m maps Path.String() to the
\* position (from 0) of the update in the vector.
NoIndex == [on |-> FALSE, m |-> [k \in {} |-> 0]]

\* transaction of the tree engine.  updates[1] is the source's updates[0].
TreeTxn(w) ==
    [write |-> w, stale |-> FALSE, updates |-> <<>>, pathIndex |-> NoIndex,
     policies |-> [k \in {} |-> Null]]

\* The outcome of a transaction method: the error kind and the transaction
\* as the call leaves it.
TxnRes(e, txn) == [err |-> e, txn |-> txn]

\* transaction.initPathIndex
initPathIndex(txn) ==
    IF txn.pathIndex.on THEN txn
    ELSE [txn EXCEPT !.pathIndex =
            [on |-> TRUE,
             m |-> [k \in {PathString(txn.updates[i].path) : i \in 1..Len(txn.updates)} |->
                      \* later entries overwrite earlier ones with the same key
                      (CHOOSE i \in 1..Len(txn.updates) :
                          /\ PathString(txn.updates[i].path) = k
                          /\ \A j \in 1..Len(txn.updates) :
                                PathString(txn.updates[j].path) = k => j <= i) - 1]]]

\* transaction.removeUpdate(idx), idx from 0.
removeUpdate(txn, idx) ==
    IF idx >= Len(txn.updates) THEN txn
    ELSE LET pathStr == PathString(txn.updates[idx + 1].path)
             m1 == [k \in DOMAIN txn.pathIndex.m \ {pathStr} |-> txn.pathIndex.m[k]]
         IN  [txn EXCEPT
                !.updates = RemoveAt(txn.updates, idx),
                !.pathIndex.m = [k \in DOMAIN m1 |->
                                    IF m1[k] > idx THEN m1[k] - 1 ELSE m1[k]]]

\* transaction.updateRoot
updateRoot(txn, op, value) ==
    IF op = "remove" THEN TxnRes("RootCannotBeRemoved", txn)
    ELSE IF value.t # "obj" THEN TxnRes("RootMustBeObject", txn)
    ELSE TxnRes("OK", [txn EXCEPT !.updates = <<UpdateRaw(RootPath, value, FALSE)>>])

\* The exact-match step of Write (txn.go 78-134): k is "return" when Write
\* returns there with err, "go" when it goes on with txn.
ExactStep(k, e, txn) == [k |-> k, err |-> e, txn |-> txn]

\* First position (from 1) of an update whose path equals path, 0 if none.
RECURSIVE FirstEqual(_, _, _)
FirstEqual(updates, path, i) ==
    IF i > Len(updates) THEN 0
    ELSE IF Equal(updates[i].path, path) THEN i
    ELSE FirstEqual(updates, path, i + 1)

exactMatch(txn, op, path, value) ==
    IF txn.pathIndex.on
    THEN \* fast path: index lookup
         IF PathString(path) \in DOMAIN txn.pathIndex.m
         THEN LET idx == txn.pathIndex.m[PathString(path)] IN
              IF idx >= Len(txn.updates) THEN ExactStep("return", "Panic", txn)
              ELSE LET update == txn.updates[idx + 1] IN
                   IF update.remove /\ op # "add" THEN ExactStep("return", "NotFound", txn)
                   ELSE IF comparableEquals(update.value, value)
                   THEN ExactStep("return", "OK", txn)
                   ELSE ExactStep("go", "OK", removeUpdate(txn, idx))
         ELSE ExactStep("go", "OK", txn)
    ELSE \* slow path: linear scan
         LET i == FirstEqual(txn.updates, path, 1) IN
         IF i = 0 THEN ExactStep("go", "OK", txn)
         ELSE LET update == txn.updates[i] IN
              IF update.remove /\ op # "add" THEN ExactStep("return", "NotFound", txn)
              ELSE IF comparableEquals(update.value, value)
              THEN ExactStep("return", "OK", txn)
              ELSE ExactStep("go", "OK", [txn EXCEPT !.updates = RemoveAt(txn.updates, i - 1)])

\* The prefix scan of Write (txn.go 156-178) from position i on: k is "done"
\* at the end of the vector with toRemove collected (positions from 0),
\* "notfound" or "fold" at the first update whose path is a prefix of path.
RECURSIVE prefixScan(_, _, _, _)
prefixScan(updates, path, i, toRemove) ==
    IF i > Len(updates) THEN [k |-> "done", at |-> 0, toRemove |-> toRemove]
    ELSE IF HasPrefix(updates[i].path, path)
    THEN prefixScan(updates, path, i + 1, Append(toRemove, i - 1))
    ELSE IF HasPrefix(path, updates[i].path)
    THEN [k |-> IF updates[i].remove THEN "notfound" ELSE "fold", at |-> i,
          toRemove |-> toRemove]
    ELSE prefixScan(updates, path, i + 1, toRemove)

\* txn.go 181-183: remove the masked updates, last collected first.
RECURSIVE removeMasked(_, _)
removeMasked(txn, toRemove) ==
    IF Len(toRemove) = 0 THEN txn
    ELSE removeMasked(removeUpdate(txn, Last(toRemove)), Front(toRemove))

\* txn.go 192-202: prepend the update and shift the index.
prependUpdate(txn, update, path) ==
    [txn EXCEPT
        !.updates = <<update>> \o txn.updates,
        !.pathIndex.m =
            IF txn.pathIndex.on
            THEN [k \in DOMAIN txn.pathIndex.m \cup {PathString(path)} |->
                    IF k = PathString(path) THEN 0 ELSE txn.pathIndex.m[k] + 1]
            ELSE txn.pathIndex.m]

\* transaction.Write; data is txn.db.data.
TreeWrite(txn, data, op, path, value) ==
    IF ~txn.write THEN TxnRes("InvalidTransaction", txn)
    ELSE IF Len(path) = 0 THEN updateRoot(txn, op, value)
    ELSE
    LET t0 == IF ~txn.pathIndex.on /\ Len(txn.updates) >= pathIndexThreshold
              THEN initPathIndex(txn) ELSE txn
        ex == exactMatch(t0, op, path, value)
    IN  IF ex.k = "return" THEN TxnRes(ex.err, ex.txn)
        ELSE
        LET t1 == ex.txn
            sc == prefixScan(t1.updates, path, 1, <<>>)
        IN  CASE sc.k = "notfound" -> TxnRes("NotFound", t1)
              [] sc.k = "fold" ->
                    LET update == t1.updates[sc.at]
                        suffix == Suffix(path, Len(update.path))
                        nu == newUpdate(update.value, op, suffix, 0, value)
                    IN  IF nu.err # "OK" THEN TxnRes(nu.err, t1)
                        ELSE TxnRes("OK",
                               [t1 EXCEPT !.updates[sc.at].value =
                                              Apply(nu.upd, update.value)])
              [] OTHER ->
                    LET t2 == removeMasked(t1, sc.toRemove)
                        nu == newUpdate(data, op, path, 0, value)
                    IN  IF nu.err # "OK" THEN TxnRes(nu.err, t2)
                        ELSE TxnRes("OK", prependUpdate(t2, nu.upd, path))

\* The exact-match step by the linear scan alone (txn.go 106-133).
linearMatch(txn, op, path, value) ==
    LET i == FirstEqual(txn.updates, path, 1) IN
    IF i = 0 THEN ExactStep("go", "OK", txn)
    ELSE IF txn.updates[i].remove /\ op # "add" THEN ExactStep("return", "NotFound", txn)
    ELSE IF comparableEquals(txn.updates[i].value, value) THEN ExactStep("return", "OK", txn)
    ELSE ExactStep("go", "OK", [txn EXCEPT !.updates = RemoveAt(txn.updates, i - 1)])

\* transaction.Write with the exact-path lookup done by the linear scan
\* whatever the number of updates: the path index is never built.
TreeWriteLinear(txn, data, op, path, value) ==
    IF ~txn.write THEN TxnRes("InvalidTransaction", txn)
    ELSE IF Len(path) = 0 THEN updateRoot(txn, op, value)
    ELSE
    LET ex == linearMatch([txn EXCEPT !.pathIndex = NoIndex], op, path, value)
    IN  IF ex.k = "return" THEN TxnRes(ex.err, ex.txn)
        ELSE
        LET t1 == ex.txn
            sc == prefixScan(t1.updates, path, 1, <<>>)
        IN  CASE sc.k = "notfound" -> TxnRes("NotFound", t1)
              [] sc.k = "fold" ->
                    LET update == t1.updates[sc.at]
                        suffix == Suffix(path, Len(update.path))
                        nu == newUpdate(update.value, op, suffix, 0, value)
                    IN  IF nu.err # "OK" THEN TxnRes(nu.err, t1)
                        ELSE TxnRes("OK",
                               [t1 EXCEPT !.updates[sc.at].value =
                                              Apply(nu.upd, update.value)])
              [] OTHER ->
                    LET t2 == removeMasked(t1, sc.toRemove)
                        nu == newUpdate(data, op, path, 0, value)
                    IN  IF nu.err # "OK" THEN TxnRes(nu.err, t2)
                        ELSE TxnRes("OK", prependUpdate(t2, nu.upd, path))

\* The fold of transaction.Read's merge loop (txn.go 429-431).
RECURSIVE mergeApply(_, _, _)
mergeApply(merge, path, cpy) ==
    IF Len(merge) = 0 THEN cpy
    ELSE mergeApply(Tail(merge), path, Apply(Relative(Head(merge), path), cpy))

\* The scan of transaction.Read (txn.go 404-415) from position i on.
RECURSIVE readScan(_, _, _, _)
readScan(updates, path, i, merge) ==
    IF i > Len(updates) THEN [k |-> "base", res |-> Err("NotFound"), merge |-> merge]
    ELSE LET upd == updates[i] IN
         IF HasPrefix(path, upd.path)
         THEN [k |-> "hit",
               res |-> IF upd.remove THEN Err("NotFound")
                       ELSE Ptr(upd.value, Suffix(path, Len(upd.path))),
               merge |-> merge]
         ELSE IF HasPrefix(upd.path, path)
         THEN readScan(updates, path, i + 1, Append(merge, upd))
         ELSE readScan(updates, path, i + 1, merge)

\* transaction.Read
TreeRead(txn, data, path) ==
    IF ~txn.write \/ Len(txn.updates) = 0 THEN Ptr(data, path)
    ELSE LET sc == readScan(txn.updates, path, 1, <<>>) IN
         IF sc.k = "hit" THEN sc.res
         ELSE LET base == Ptr(data, path) IN
              IF base.err # "OK" THEN base
              ELSE IF Len(sc.merge) = 0 THEN base
              ELSE LET cpy == mergeApply(sc.merge, path, base.val) IN
                   IF cpy.t = "panic" THEN Err("Panic") ELSE Ok(cpy)

\* The data loop of transaction.Commit (txn.go 324-335): db.data after the
\* updates are applied in the order of the vector.
RECURSIVE applyAll(_, _)
applyAll(updates, data) ==
    IF Len(updates) = 0 THEN data
    ELSE applyAll(Tail(updates), Apply(Head(updates), data))

\* DataEvent entries built by Commit when triggers are registered.
DataEvents(updates) ==
    [i \in 1..Len(updates) |->
        [path |-> updates[i].path, data |-> updates[i].value,
         removed |-> updates[i].remove]]

-----------------------------------------------------------------------------
(* Arena engine: nodes (v1/storage/arena/node.go).                         *)

SegmentSize == 512
MaxSegments == 4096

\* Node.  vType is one of "free", "int", "float", "bool", "str", "obj",
\* "arr", "null", "tomb"; key and vStr are interned strings, compared by
\* value, "" being EmptyHandle; vRaw read through AsChildIndex is an index.
MkNode(k, s, r, n, ty) == [key |-> k, vStr |-> s, vRaw |-> r, next |-> n, vType |-> ty]

\* Node.Reset
ResetNode == MkNode("", "", 0, -1, "free")

SetInt(n, x) == [n EXCEPT !.vType = "int", !.vRaw = x, !.vStr = ""]
SetBool(n, b) == [n EXCEPT !.vType = "bool", !.vRaw = IF b THEN 1 ELSE 0, !.vStr = ""]
SetString(n, x) == [n EXCEPT !.vType = "str", !.vStr = x, !.vRaw = 0]
SetNull(n) == [n EXCEPT !.vType = "null", !.vRaw = 0, !.vStr = ""]
SetObject(n, childIdx) == [n EXCEPT !.vType = "obj", !.vRaw = childIdx, !.vStr = ""]
SetArray(n, childIdx) == [n EXCEPT !.vType = "arr", !.vRaw = childIdx, !.vStr = ""]
SetKey(n, k) == [n EXCEPT !.key = k]
MarkTombstone(n) == [n EXCEPT !.vType = "tomb"]
AsChildIndex(n) == n.vRaw

-----------------------------------------------------------------------------
(* Arena engine: the node store (v1/storage/arena/arena.go).               *)
(* A heap h holds the segments' nodes, the freelist head and the counters; *)
(* panic is set when an operation dereferences a nil node or segment.      *)

EmptyHeap ==
    [nodes |-> [i \in {} |-> ResetNode], freeHead |-> -1, nodeCnt |-> 0,
     segCount |-> 0, panic |-> FALSE]

\* Arena.getNode yields nil for idx < 0 and dereferences a nil segment for an
\* index beyond the segments created.
IsNil(h, idx) == idx < 0
NoSegment(h, idx) == idx >= 0 /\ idx \div SegmentSize >= h.segCount

\* *getNode(idx): nodes of a created segment that were never written are as
\* extend left them (Reset).
NodeAt(h, idx) == IF idx \in DOMAIN h.nodes THEN h.nodes[idx] ELSE ResetNode
PutNode(h, idx, n) ==
    IF IsNil(h, idx) \/ NoSegment(h, idx) THEN [h EXCEPT !.panic = TRUE]
    ELSE [h EXCEPT !.nodes = (idx :> n) @@ h.nodes]
Crash(h) == [h EXCEPT !.panic = TRUE]

\* Arena.extend
extend(h) ==
    IF h.segCount >= MaxSegments THEN Crash(h)
    ELSE [h EXCEPT !.segCount = h.segCount + 1]

\* Arena.alloc: the heap after the allocation and the index allocated.
alloc(h) ==
    IF h.freeHead # -1
    THEN LET oldFree == h.freeHead
             nextFree == NodeAt(h, oldFree).next
         IN  [h |-> PutNode([h EXCEPT !.freeHead = nextFree], oldFree, ResetNode),
              idx |-> oldFree]
    ELSE LET idx == h.nodeCnt
             h1 == [h EXCEPT !.nodeCnt = h.nodeCnt + 1]
             h2 == IF idx \div SegmentSize >= h1.segCount THEN extend(h1) ELSE h1
         IN  [h |-> PutNode(h2, idx, ResetNode), idx |-> idx]

\* Arena.free without node.next = oldHead (arena.go 216): the node freed
\* becomes the whole freelist.  C37_AllocIsLifo fails under it.
freeDropping(h, idx) ==
    IF idx < 0 THEN h
    ELSE [PutNode(h, idx, ResetNode) EXCEPT !.freeHead = idx]

\* Arena.free
free(h, idx) ==
    IF idx < 0 THEN h
    ELSE [PutNode(h, idx, [ResetNode EXCEPT !.next = h.freeHead])
            EXCEPT !.freeHead = idx]

\* Arena.freeNodeRecursive; freeChain is its loop over a child chain, which
\* reads a child's next before freeing the child.
RECURSIVE freeNodeRecursive(_, _)
RECURSIVE freeChain(_, _)
freeChain(h, childIdx) ==
    IF childIdx = -1 \/ h.panic THEN h
    ELSE IF IsNil(h, childIdx) \/ NoSegment(h, childIdx) THEN Crash(h)
    ELSE LET nextIdx == NodeAt(h, childIdx).next IN
         freeChain(freeNodeRecursive(h, childIdx), nextIdx)

freeNodeRecursive(h, idx) ==
    IF idx = -1 THEN h
    ELSE IF IsNil(h, idx) \/ NoSegment(h, idx) THEN Crash(h)
    ELSE LET node == NodeAt(h, idx)
             h1 == IF node.vType \in {"obj", "arr"}
                   THEN freeChain(h, AsChildIndex(node)) ELSE h
         IN  IF h1.panic THEN h1 ELSE free(h1, idx)

\* Arena.freeNodeChildren
freeNodeChildren(h, idx) ==
    IF idx = -1 THEN h
    ELSE IF IsNil(h, idx) \/ NoSegment(h, idx) THEN Crash(h)
    ELSE LET node == NodeAt(h, idx) IN
         IF node.vType \in {"obj", "arr"} THEN freeChain(h, AsChildIndex(node)) ELSE h

\* Go visits the keys of a map in an unspecified order: ord is the order of
\* one visit, a sequence holding every key once.
RECURSIVE KeysIn(_, _)
KeysIn(ord, m) ==
    IF Len(ord) = 0 THEN <<>>
    ELSE IF Head(ord) \in DOMAIN m THEN <<Head(ord)>> \o KeysIn(Tail(ord), m)
    ELSE KeysIn(Tail(ord), m)

\* Arena.LoadMap, Arena.LoadSlice and Arena.fillNode.  LoadMap and LoadSlice
\* give the heap and the index of the composite node; loadChain is their
\* loop: items are <<key, value>> pairs, slice elements having no key set.
RECURSIVE fillNode(_, _, _, _)
RECURSIVE loadChain(_, _, _, _, _, _)

\* linkItem without the link from the last node (arena.go 498-499, 532-533
\* left out): the chain keeps its first node only.
linkItemUnlinked(h, nodeIdx, items, setKey, head, last, ord) ==
    loadChain(h, Tail(items), setKey, IF head = -1 THEN nodeIdx ELSE head, nodeIdx, ord)

\* The end of one turn of the loop: the node filled is linked behind the
\* last one and becomes the last one.
linkItem(h, nodeIdx, items, setKey, head, last, ord) ==
    loadChain(IF last # -1
              THEN PutNode(h, last, [NodeAt(h, last) EXCEPT !.next = nodeIdx])
              ELSE h,
              Tail(items), setKey, IF head = -1 THEN nodeIdx ELSE head, nodeIdx, ord)

\* One turn of the loop on the node a.idx just allocated: key, next and
\* value are set.
loadItem(a, items, setKey, head, last, ord) ==
    linkItem(fillNode(PutNode(a.h, a.idx,
                              [(IF setKey THEN SetKey(NodeAt(a.h, a.idx), Head(items)[1])
                                ELSE NodeAt(a.h, a.idx)) EXCEPT !.next = -1]),
                      a.idx, Head(items)[2], ord),
             a.idx, items, setKey, head, last, ord)

loadChain(h, items, setKey, head, last, ord) ==
    IF Len(items) = 0 \/ h.panic THEN [h |-> h, idx |-> head]
    ELSE loadItem(alloc(h), items, setKey, head, last, ord)

\* The composite node of LoadMap (ty "obj") and LoadSlice (ty "arr"): the
\* node a.idx just allocated takes the chain starting at childIdx.
headNode(a, childIdx, ty) ==
    [h |-> PutNode(a.h, a.idx,
                   IF ty = "obj" THEN SetObject(NodeAt(a.h, a.idx), childIdx)
                   ELSE SetArray(NodeAt(a.h, a.idx), childIdx)),
     idx |-> a.idx]

\* The map's entries in the order of one visit, as loadChain takes them.
mapItems(m, keys) == [i \in 1..Len(keys) |-> <<keys[i], m[keys[i]]>>]

\* The end of LoadMap and LoadSlice: the composite node is allocated after
\* the chain c and takes it.
closeChain(c, ty) == headNode(alloc(c.h), c.idx, ty)

LoadMap(h, m, ord) ==
    IF DOMAIN m = {} THEN headNode(alloc(h), -1, "obj")
    ELSE closeChain(loadChain(h, mapItems(m, KeysIn(ord, m)), TRUE, -1, -1, ord), "obj")

LoadSlice(h, s, ord) ==
    IF Len(s) = 0 THEN headNode(alloc(h), -1, "arr")
    ELSE closeChain(loadChain(h, [i \in 1..Len(s) |-> <<"", s[i]>>], FALSE, -1, -1, ord),
                    "arr")

\* fillNode's map and slice cases: the node at idx takes the child chain of
\* the composite node r.idx that LoadMap or LoadSlice allocated.
adopt(r, idx, ty) ==
    PutNode(r.h, idx,
            IF ty = "obj"
            THEN SetObject(NodeAt(r.h, idx), AsChildIndex(NodeAt(r.h, r.idx)))
            ELSE SetArray(NodeAt(r.h, idx), AsChildIndex(NodeAt(r.h, r.idx))))

\* fillNode on the node at idx.
fillNode(h, idx, val, ord) ==
    CASE val.t = "null" -> PutNode(h, idx, SetNull(NodeAt(h, idx)))
      [] val.t = "bool" -> PutNode(h, idx, SetBool(NodeAt(h, idx), val.v))
      [] val.t = "int" -> PutNode(h, idx, SetInt(NodeAt(h, idx), val.v))
      [] val.t = "str" -> PutNode(h, idx, SetString(NodeAt(h, idx), val.v))
      [] val.t = "obj" -> adopt(LoadMap(h, val.v, ord), idx, "obj")
      [] val.t = "arr" -> adopt(LoadSlice(h, val.v, ord), idx, "arr")
      [] OTHER -> PutNode(h, idx, SetNull(NodeAt(h, idx)))

\* The chain walk of setValue and removeValue (arena.go 599-616, 654-673)
\* from childIdx on: the index of the first node whose key is the handle
\* sought and the index before it, found = FALSE with prev the last node of
\* the chain when there is none.  k is "panic" on a nil node and "hang" when
\* the chain leads back into itself (the loop never ends).
RECURSIVE findKey(_, _, _, _, _)
findKey(h, childIdx, keyHandle, prevIdx, seen) ==
    IF childIdx = -1 THEN [k |-> "end", found |-> FALSE, idx |-> -1, prev |-> prevIdx]
    ELSE IF IsNil(h, childIdx) \/ NoSegment(h, childIdx)
    THEN [k |-> "panic", found |-> FALSE, idx |-> -1, prev |-> prevIdx]
    ELSE IF childIdx \in seen
    THEN [k |-> "hang", found |-> FALSE, idx |-> -1, prev |-> prevIdx]
    ELSE IF NodeAt(h, childIdx).key = keyHandle
    THEN [k |-> "end", found |-> TRUE, idx |-> childIdx, prev |-> prevIdx]
    ELSE findKey(h, NodeAt(h, childIdx).next, keyHandle, childIdx, seen \cup {childIdx})

\* The outcome of setValue and removeValue: the heap and the error kind
\* ("OK", "NotFound", or "Panic"/"Hang" when the call does not return).
HeapRes(h, e) == [h |-> h, err |-> e]
heapOutcome(h) == HeapRes(h, IF h.panic THEN "Panic" ELSE "OK")

\* Arena.setValue; depth counts from 0, path[depth + 1] is the source's
\* path[depth].
RECURSIVE setValue(_, _, _, _, _, _)

\* arena.go 633-641: the new node is linked as the parent's first child or
\* behind the last child; the result r of the nested setValue is not read.
linkNew(r, parentIdx, prev, newIdx) ==
    IF r.err \in {"Panic", "Hang"} THEN r
    ELSE heapOutcome(IF prev = -1
                     THEN PutNode(r.h, parentIdx, SetObject(NodeAt(r.h, parentIdx), newIdx))
                     ELSE PutNode(r.h, prev, [NodeAt(r.h, prev) EXCEPT !.next = newIdx]))

\* arena.go 619-622: the node allocated takes the key and ends the chain.
keyedNode(a, key) ==
    PutNode(a.h, a.idx, [SetKey(NodeAt(a.h, a.idx), key) EXCEPT !.next = -1])

\* arena.go 629-631: an intermediate object without children.
emptyObjectAt(h, idx) == PutNode(h, idx, SetObject(NodeAt(h, idx), -1))

\* arena.go 618-631: no child has the key; a is the allocation.
setNew(a, parentIdx, path, depth, value, ord, prev) ==
    linkNew(IF depth = Len(path) - 1
            THEN HeapRes(fillNode(keyedNode(a, path[depth + 1]), a.idx, value, ord), "OK")
            ELSE setValue(emptyObjectAt(keyedNode(a, path[depth + 1]), a.idx),
                          a.idx, path, depth + 1, value, ord),
            parentIdx, prev, a.idx)

\* arena.go 599-641 after the chain walk f.
setAt(h, parentIdx, path, depth, value, ord, f) ==
    CASE f.k = "panic" -> HeapRes(Crash(h), "Panic")
      [] f.k = "hang" -> HeapRes(h, "Hang")
      [] f.k = "end" /\ f.found /\ depth = Len(path) - 1 ->
            heapOutcome(fillNode(freeNodeChildren(h, f.idx), f.idx, value, ord))
      [] f.k = "end" /\ f.found /\ depth # Len(path) - 1 ->
            setValue(h, f.idx, path, depth + 1, value, ord)
      [] OTHER -> setNew(alloc(h), parentIdx, path, depth, value, ord, f.prev)

setValue(h, parentIdx, path, depth, value, ord) ==
    IF IsNil(h, parentIdx) \/ NoSegment(h, parentIdx) THEN HeapRes(Crash(h), "Panic")
    ELSE setAt(h, parentIdx, path, depth, value, ord,
               findKey(h, AsChildIndex(NodeAt(h, parentIdx)), path[depth + 1], -1, {}))

\* Arena.unlinkChild
unlinkChild(h, parentIdx, childIdx, prevIdx) ==
    IF prevIdx = -1
    THEN PutNode(h, parentIdx,
                 [NodeAt(h, parentIdx) EXCEPT !.vRaw = NodeAt(h, childIdx).next])
    ELSE PutNode(h, prevIdx,
                 [NodeAt(h, prevIdx) EXCEPT !.next = NodeAt(h, childIdx).next])

\* Arena.removeValue
RECURSIVE removeValue(_, _, _, _)

\* arena.go 654-679 after the chain walk f.
removeAtKey(h, parentIdx, path, depth, f) ==
    CASE f.k = "panic" -> HeapRes(Crash(h), "Panic")
      [] f.k = "hang" -> HeapRes(h, "Hang")
      [] f.k = "end" /\ f.found /\ depth = Len(path) - 1 ->
            heapOutcome(freeNodeRecursive(unlinkChild(h, parentIdx, f.idx, f.prev), f.idx))
      [] f.k = "end" /\ f.found /\ depth # Len(path) - 1 ->
            removeValue(h, f.idx, path, depth + 1)
      [] OTHER -> HeapRes(h, "NotFound")

removeValue(h, parentIdx, path, depth) ==
    IF IsNil(h, parentIdx) \/ NoSegment(h, parentIdx) THEN HeapRes(Crash(h), "Panic")
    ELSE removeAtKey(h, parentIdx, path, depth,
                     findKey(h, AsChildIndex(NodeAt(h, parentIdx)), path[depth + 1], -1, {}))

\* Node.ToInterface, objectToMap and arrayToSlice on the node at idx.  A
\* chain that leads back into itself never ends: the value is PanicV then,
\* as it is on a nil node.
RECURSIVE ToInterface(_, _)
RECURSIVE chainToMap(_, _, _, _)
RECURSIVE chainToSlice(_, _, _, _)
chainToMap(h, idx, result, seen) ==
    IF idx = -1 THEN ObjV(result)
    ELSE IF IsNil(h, idx) \/ NoSegment(h, idx) \/ idx \in seen THEN PanicV
    ELSE LET child == NodeAt(h, idx)
             x == ToInterface(h, idx)
         IN  IF child.vType # "tomb"
             THEN IF x.t = "panic" THEN PanicV
                  ELSE chainToMap(h, child.next, MapPut(result, child.key, x), seen \cup {idx})
             ELSE chainToMap(h, child.next, result, seen \cup {idx})

chainToSlice(h, idx, result, seen) ==
    IF idx = -1 THEN ArrV(result)
    ELSE IF IsNil(h, idx) \/ NoSegment(h, idx) \/ idx \in seen THEN PanicV
    ELSE LET child == NodeAt(h, idx)
             x == ToInterface(h, idx)
         IN  IF child.vType # "tomb"
             THEN IF x.t = "panic" THEN PanicV
                  ELSE chainToSlice(h, child.next, Append(result, x), seen \cup {idx})
             ELSE chainToSlice(h, child.next, result, seen \cup {idx})

ToInterface(h, idx) ==
    IF IsNil(h, idx) \/ NoSegment(h, idx) THEN PanicV
    ELSE LET n == NodeAt(h, idx) IN
         CASE n.vType = "int" -> IntV(n.vRaw)
           [] n.vType = "bool" -> BoolV(n.vRaw = 1)
           [] n.vType = "str" -> StrV(n.vStr)
           [] n.vType = "obj" -> chainToMap(h, AsChildIndex(n), EmptyMap, {})
           [] n.vType = "arr" -> chainToSlice(h, AsChildIndex(n), <<>>, {})
           [] OTHER -> Null

\* Node.PathLookup, objectLookup and arrayLookup from the node at idx: the
\* index of the node found, -1 when none is, -2 when the walk panics or
\* never ends.
RECURSIVE PathLookup(_, _, _)
RECURSIVE objectLookup(_, _, _, _)
RECURSIVE arrayLookup(_, _, _, _, _, _)
objectLookup(h, idx, path, seen) ==
    IF idx = -1 THEN -1
    ELSE IF IsNil(h, idx) \/ NoSegment(h, idx) \/ idx \in seen THEN -2
    ELSE LET child == NodeAt(h, idx) IN
         IF child.vType # "tomb" /\ child.key = Head(path)
         THEN IF Len(path) = 1 THEN idx ELSE PathLookup(h, idx, Tail(path))
         ELSE objectLookup(h, child.next, path, seen \cup {idx})

arrayLookup(h, idx, path, pos, current, seen) ==
    IF idx = -1 THEN -1
    ELSE IF IsNil(h, idx) \/ NoSegment(h, idx) \/ idx \in seen THEN -2
    ELSE LET child == NodeAt(h, idx) IN
         IF child.vType # "tomb"
         THEN IF current = pos
              THEN IF Len(path) = 1 THEN idx ELSE PathLookup(h, idx, Tail(path))
              ELSE arrayLookup(h, child.next, path, pos, current + 1, seen \cup {idx})
         ELSE arrayLookup(h, child.next, path, pos, current, seen \cup {idx})

PathLookup(h, idx, path) ==
    IF IsNil(h, idx) \/ NoSegment(h, idx) THEN -2
    ELSE IF Len(path) = 0 THEN idx
    ELSE LET n == NodeAt(h, idx) IN
         CASE n.vType = "obj" -> objectLookup(h, AsChildIndex(n), path, {})
           [] n.vType = "arr" ->
                 IF ~IsDecimal(Head(path)) THEN -1
                 ELSE arrayLookup(h, AsChildIndex(n), path, Atoi(Head(path)), 0, {})
           [] OTHER -> -1

-----------------------------------------------------------------------------
(* Arena engine: pending updates and their patch operations.               *)

\* arenaUpdate
arenaUpdate(p, x, op, rm) == [path |-> p, value |-> x, op |-> op, remove |-> rm]

\* parseArrayIndex
parseArrayIndex(key, arrayLen) ==
    IF key = "-" THEN arrayLen
    ELSE IF IsDecimal(key) THEN Atoi(key)
    ELSE -1

\* insertAt and removeAt; idx counts from 0.
insertAt(s, idx, value) ==
    LET i == IF idx < 0 THEN 0 ELSE IF idx > Len(s) THEN Len(s) ELSE idx IN
    SubSeq(s, 1, i) \o <<value>> \o SubSeq(s, i + 1, Len(s))

removeAt(s, idx) ==
    IF idx < 0 \/ idx >= Len(s) THEN s
    ELSE SubSeq(s, 1, idx) \o SubSeq(s, idx + 2, Len(s))

\* applyPatch, applyPatchToMap and applyPatchToSlice
RECURSIVE applyPatch(_, _, _, _)
applyPatchToMap(m, key, rest, op, value) ==
    IF DOMAIN m = {} /\ op = "add"
    THEN IF Len(rest) = 0 THEN (key :> value)
         ELSE (key :> applyPatch(EmptyObj, rest, op, value))
    ELSE IF Len(rest) = 0
         THEN CASE op \in {"add", "replace"} -> MapPut(m, key, value)
                [] op = "remove" -> MapDel(m, key)
                [] OTHER -> m
         ELSE IF key \in DOMAIN m
              THEN MapPut(m, key, applyPatch(m[key], rest, op, value))
              ELSE IF op = "add"
                   THEN MapPut(m, key, applyPatch(EmptyObj, rest, op, value))
                   ELSE m

applyPatchToSlice(s, key, rest, op, value) ==
    LET idx == parseArrayIndex(key, Len(s)) IN
    IF idx < 0 THEN s
    ELSE IF Len(rest) = 0
         THEN CASE op = "add" -> insertAt(s, idx, value)
                [] op = "replace" /\ idx < Len(s) -> [s EXCEPT ![idx + 1] = value]
                [] op = "remove" /\ idx < Len(s) -> removeAt(s, idx)
                [] OTHER -> s
         ELSE IF idx < Len(s)
              THEN [s EXCEPT ![idx + 1] = applyPatch(s[idx + 1], rest, op, value)]
              ELSE s

applyPatch(base, path, op, value) ==
    IF Len(path) = 0
    THEN IF op = "remove" THEN Null ELSE value
    ELSE CASE base.t = "obj" ->
                ObjV(applyPatchToMap(base.v, Head(path), Tail(path), op, value))
           [] base.t = "arr" ->
                ArrV(applyPatchToSlice(base.v, Head(path), Tail(path), op, value))
           [] OTHER -> base

\* arenaUpdate.Apply
arenaApply(u, base) ==
    IF Len(u.path) = 0 THEN u.value
    ELSE applyPatch(base, u.path, u.op, u.value)

-----------------------------------------------------------------------------
(* Arena engine: the transaction.                                          *)

\* transaction: arena names the store the transaction belongs to, rootIdx is
\* the root index sampled when the transaction began.  A nil updates slice
\* and an empty one behave alike in every method and are both <<>>.
ArenaTxn(a, root, w) ==
    [arena |-> a, rootIdx |-> root, write |-> w, stale |-> FALSE,
     updates |-> <<>>, policies |-> <<>>]

\* transaction.addUpdate, removeUpdateAt (idx from 0) and clearUpdates
addUpdate(txn, upd) == [txn EXCEPT !.updates = Append(txn.updates, upd)]

\* removeUpdateAt without the shift and the truncation (part_015 62-63): the
\* update stays.  C14_SameWriteIdempotent fails under it.
removeUpdateAtKeeping(txn, idx) == txn

removeUpdateAt(txn, idx) ==
    [txn EXCEPT !.updates = SubSeq(txn.updates, 1, idx)
                             \o SubSeq(txn.updates, idx + 2, Len(txn.updates))]
clearUpdates(txn) == [txn EXCEPT !.updates = <<>>]

\* transaction.navigateValue
RECURSIVE navigateValue(_, _)
navigateValue(value, path) ==
    IF Len(path) = 0 THEN Ok(value)
    ELSE LET key == Head(path) IN
         CASE value.t = "obj" ->
                IF key \in DOMAIN value.v THEN navigateValue(value.v[key], Tail(path))
                ELSE Err("NotFound")
           [] value.t = "arr" ->
                LET idx == parseArrayIndex(key, Len(value.v)) IN
                IF idx < 0 \/ idx >= Len(value.v) THEN Err("NotFound")
                ELSE navigateValue(value.v[idx + 1], Tail(path))
           [] OTHER -> Err("NotFound")

\* transaction.applyUpdates
RECURSIVE applyUpdates(_, _, _)
applyUpdates(base, basePath, updates) ==
    IF Len(updates) = 0 THEN base
    ELSE applyUpdates(arenaApply(Head(updates), base), basePath, Tail(updates))

\* The read from the arena at the transaction's root index (part_011 46-56
\* and 91-101): a nil root or a broken chain panics.
arenaBaseRead(h, rootIdx, path) ==
    IF IsNil(h, rootIdx) \/ NoSegment(h, rootIdx) THEN Err("Panic")
    ELSE IF Len(path) = 0
    THEN LET x == ToInterface(h, rootIdx) IN
         IF x.t = "panic" THEN Err("Panic") ELSE Ok(x)
    ELSE LET idx == PathLookup(h, rootIdx, path) IN
         IF idx = -2 THEN Err("Panic")
         ELSE IF idx = -1 THEN Err("NotFound")
         ELSE LET x == ToInterface(h, idx) IN
              IF x.t = "panic" THEN Err("Panic") ELSE Ok(x)

\* transaction.readWithUpdates; readUpdatesScan is its loop over the
\* updates from index i (from 1), relevant the updates collected so far.
RECURSIVE readUpdatesScan(_, _, _, _, _)
readUpdatesScan(txn, h, path, i, relevant) ==
    IF i > Len(txn.updates)
    THEN LET base == arenaBaseRead(h, txn.rootIdx, path) IN
         IF base.err = "Panic" THEN base
         ELSE IF Len(relevant) = 0 THEN base
         ELSE Ok(applyUpdates(IF base.err # "OK" THEN EmptyObj ELSE base.val,
                              path, relevant))
    ELSE LET upd == txn.updates[i] IN
         IF HasPrefix(path, upd.path)
         THEN IF upd.remove THEN Err("NotFound")
              ELSE navigateValue(upd.value, Suffix(path, Len(upd.path)))
         ELSE IF HasPrefix(upd.path, path)
              THEN readUpdatesScan(txn, h, path, i + 1, Append(relevant, upd))
              ELSE readUpdatesScan(txn, h, path, i + 1, relevant)

readWithUpdates(txn, h, path) == readUpdatesScan(txn, h, path, 1, <<>>)

\* transaction.Read
ArenaTxnRead(txn, h, path) ==
    IF txn.write THEN readWithUpdates(txn, h, path)
    ELSE arenaBaseRead(h, txn.rootIdx, path)

\* transaction.updateRoot without clearUpdates (part_011 237): the root
\* update is added behind the updates pending.  C10_RootWrite fails under it.
arenaUpdateRootKeeping(txn, op, value) ==
    IF op = "remove" THEN TxnRes("RootCannotBeRemoved", txn)
    ELSE IF value.t # "obj" THEN TxnRes("RootMustBeObject", txn)
    ELSE TxnRes("OK", addUpdate(txn, arenaUpdate(RootPath, value, op, FALSE)))

\* transaction.updateRoot
arenaUpdateRoot(txn, op, value) ==
    IF op = "remove" THEN TxnRes("RootCannotBeRemoved", txn)
    ELSE IF value.t # "obj" THEN TxnRes("RootMustBeObject", txn)
    ELSE TxnRes("OK", addUpdate(clearUpdates(txn),
                                arenaUpdate(RootPath, value, op, FALSE)))

\* The loop of transaction.Write over the updates, from index i (from 1)
\* down: the error kind it returns with, "OK" when it falls through to the
\* new update, and the transaction as the loop leaves it.
RECURSIVE writeScan(_, _, _, _)
writeScan(txn, i, op, path) ==
    IF i < 1 THEN TxnRes("OK", txn)
    ELSE LET upd == txn.updates[i] IN
         IF Equal(upd.path, path)
         THEN IF upd.remove /\ op # "add" THEN TxnRes("NotFound", txn)
              ELSE TxnRes("OK", removeUpdateAt(txn, i - 1))
         ELSE IF HasPrefix(upd.path, path)
              THEN writeScan(removeUpdateAt(txn, i - 1), i - 1, op, path)
              ELSE IF HasPrefix(path, upd.path)
                   THEN IF upd.remove THEN TxnRes("NotFound", txn)
                        ELSE TxnRes("OK", txn)
                   ELSE writeScan(txn, i - 1, op, path)

\* transaction.Write without the test of txn.write (part_011 165-170): a
\* read transaction records the update.  C5_ReadTxnRejectsWrites fails under
\* it.
ArenaTxnWriteUnchecked(txn, op, path, value) ==
    IF Len(path) = 0 THEN arenaUpdateRoot(txn, op, value)
    ELSE TxnRes("OK", addUpdate(writeScan(txn, Len(txn.updates), op, path).txn,
                                arenaUpdate(path, value, op, op = "remove")))

\* transaction.Write
ArenaTxnWrite(txn, op, path, value) ==
    IF ~txn.write THEN TxnRes("InvalidTransaction", txn)
    ELSE IF Len(path) = 0 THEN arenaUpdateRoot(txn, op, value)
    ELSE LET r == writeScan(txn, Len(txn.updates), op, path) IN
         IF r.err # "OK" THEN r
         ELSE TxnRes("OK", addUpdate(r.txn, arenaUpdate(path, value, op, op = "remove")))

\* txnPolicyUpdate
txnPolicyUpdate(id, value, rm) == [id |-> id, value |-> value, remove |-> rm]

\* transaction.findPolicyUpdate: the index (from 0) of the update of id, -1
\* when there is none.  Interned handles are equal exactly when the strings
\* are (interning_legacy.go).
findPolicyUpdate(txn, id) ==
    IF \E i \in 1..Len(txn.policies) : txn.policies[i].id = id
    THEN (CHOOSE i \in 1..Len(txn.policies) :
              /\ txn.policies[i].id = id
              /\ \A j \in 1..(i - 1) : txn.policies[j].id # id) - 1
    ELSE -1

\* transaction.addPolicyUpdate without the search for a pending update of
\* the id (part_015 22-27): every call appends.  C20_PoliciesTransactional
\* fails under it.
addPolicyUpdateAppending(txn, id, value, rm) ==
    [txn EXCEPT !.policies = Append(txn.policies, txnPolicyUpdate(id, value, rm))]

\* transaction.addPolicyUpdate
addPolicyUpdate(txn, id, value, rm) ==
    LET idx == findPolicyUpdate(txn, id) IN
    IF idx >= 0
    THEN [txn EXCEPT !.policies[idx + 1] = txnPolicyUpdate(id, value, rm)]
    ELSE [txn EXCEPT !.policies = Append(txn.policies, txnPolicyUpdate(id, value, rm))]

\* transaction.hasPolicyUpdate
hasPolicyUpdate(txn, id) == findPolicyUpdate(txn, id) >= 0

\* transaction.UpsertPolicy and transaction.DeletePolicy; NoBytes is the nil
\* byte slice.
NoBytes == "nil"
ArenaTxnUpsertPolicy(txn, id, bs) ==
    IF ~txn.write THEN TxnRes("InvalidTransaction", txn)
    ELSE TxnRes("OK", addPolicyUpdate(txn, id, bs, FALSE))

ArenaTxnDeletePolicy(txn, id) ==
    IF ~txn.write THEN TxnRes("InvalidTransaction", txn)
    ELSE TxnRes("OK", addPolicyUpdate(txn, id, NoBytes, TRUE))

\* transaction.GetPolicy over the committed policies map.
ArenaTxnGetPolicy(txn, policies, id) ==
    IF hasPolicyUpdate(txn, id)
    THEN LET upd == txn.policies[findPolicyUpdate(txn, id) + 1] IN
         IF upd.remove THEN Err("NotFound") ELSE Ok(StrV(upd.value))
    ELSE IF id \in DOMAIN policies THEN Ok(StrV(policies[id]))
    ELSE Err("NotFound")

\* transaction.ListPolicies: the committed ids in the order ord of the map
\* visit that have no pending update, then the pending updates not removed.
RECURSIVE policyIdsNotRemoved(_)
policyIdsNotRemoved(upds) ==
    IF Len(upds) = 0 THEN <<>>
    ELSE (IF Head(upds).remove THEN <<>> ELSE <<Head(upds).id>>)
         \o policyIdsNotRemoved(Tail(upds))

ArenaTxnListPolicies(txn, policies, ord) ==
    LET baseIDs == KeysIn(ord, policies) IN
    IF Len(txn.policies) = 0 THEN baseIDs
    ELSE SelectSeq(baseIDs, LAMBDA id : findPolicyUpdate(txn, id) < 0)
         \o policyIdsNotRemoved(txn.policies)

-----------------------------------------------------------------------------
(* Arena engine: the store.                                                *)

\* Arena as NewWithOpts leaves it: no segment yet, the root created lazily,
\* wmu the writer lock (TRUE: held), triggers the set of registered handles.
NewArena ==
    [h |-> EmptyHeap, rootIdx |-> -1, policies |-> [k \in {} |-> ""],
     triggers |-> {}, fired |-> <<>>, wmu |-> FALSE, commitCount |-> 0]

\* Arena.ensureRoot
withRoot(a, r) == [a EXCEPT !.rootIdx = r.idx, !.h = r.h]

\* ensureRoot with SetArray in the place of SetObject (arena.go 136): the
\* root created is an array.  C26_RootIsObject fails under it.
ensureRootAsArray(a) ==
    IF a.rootIdx = -1 THEN withRoot(a, headNode(alloc(a.h), -1, "arr")) ELSE a

ensureRoot(a) ==
    IF a.rootIdx = -1 THEN withRoot(a, headNode(alloc(a.h), -1, "obj")) ELSE a

\* Arena.scavenge; scavengeFrom is its loop from node i.
RECURSIVE scavengeFrom(_, _, _)
scavengeFrom(h, i, limit) ==
    IF i >= limit THEN h
    ELSE scavengeFrom(IF NodeAt(h, i).vType = "tomb" THEN free(h, i) ELSE h,
                      i + 1, limit)

scavenge(h) == scavengeFrom(h, 0, h.nodeCnt)

\* transaction.applyUpdate: the arena after the update and the error kind.
ArenaRes(a, e) == [a |-> a, err |-> e]

\* part_011 307: the root index becomes the node LoadMap gave.
rootLoaded(a, r) == ArenaRes(withRoot(a, r), IF r.h.panic THEN "Panic" ELSE "OK")

\* part_011 315, 319-320: the heap as removeValue or setValue left it.
heapApplied(a, r) == ArenaRes([a EXCEPT !.h = r.h], r.err)

applyUpdate(a, upd, ord) ==
    IF Len(upd.path) = 0
    THEN IF upd.value.t = "obj"
         THEN rootLoaded(a, LoadMap(a.h, upd.value.v, ord))
         ELSE ArenaRes(a, "RootMustBeObject")
    ELSE IF upd.remove
         THEN heapApplied(a, removeValue(a.h, a.rootIdx, upd.path, 0))
         ELSE heapApplied(a, setValue(a.h, a.rootIdx, upd.path, 0, upd.value, ord))

\* The events a commit hands to the triggers.
DataEvent(upd) == [path |-> upd.path, data |-> upd.value, removed |-> upd.remove]
PolicyEvent(upd) == [id |-> upd.id, data |-> upd.value, removed |-> upd.remove]
NoEvent == [data |-> <<>>, policy |-> <<>>]

\* The data loop of transaction.Commit from update i on (part_011 250-270):
\* an update that fails is skipped, with no event.
RECURSIVE commitUpdates(_, _, _, _, _)

\* part_011 255-268 with r the outcome of applyUpdate on update i.
commitNext(r, updates, i, event, ord) ==
    IF r.err \in {"Panic", "Hang"} THEN [a |-> r.a, event |-> event, err |-> r.err]
    ELSE IF r.err # "OK" THEN commitUpdates(r.a, updates, i + 1, event, ord)
    ELSE commitUpdates(r.a, updates, i + 1,
                       IF r.a.triggers # {}
                       THEN [event EXCEPT !.data = Append(@, DataEvent(updates[i]))]
                       ELSE event, ord)

commitUpdates(a, updates, i, event, ord) ==
    IF i > Len(updates) THEN [a |-> a, event |-> event, err |-> "OK"]
    ELSE commitNext(applyUpdate(a, updates[i], ord), updates, i, event, ord)

\* The policy loop of transaction.Commit (part_011 273-294).
RECURSIVE commitPolicies(_, _, _, _)
commitPolicies(a, upds, i, event) ==
    IF i > Len(upds) THEN [a |-> a, event |-> event, err |-> "OK"]
    ELSE commitPolicies([a EXCEPT !.policies = IF upds[i].remove THEN MapDel(@, upds[i].id)
                                               ELSE MapPut(@, upds[i].id, upds[i].value)],
                        upds, i + 1,
                        IF a.triggers # {}
                        THEN [event EXCEPT !.policy = Append(@, PolicyEvent(upds[i]))]
                        ELSE event)

\* transaction.Commit: d is the outcome of the data loop; a commit that
\* panicked there does not reach the policies.
policiesAfter(d, txn) ==
    IF d.err # "OK" THEN d ELSE commitPolicies(d.a, txn.policies, 1, d.event)

ArenaTxnCommit(txn, a, ord) ==
    policiesAfter(commitUpdates(a, txn.updates, 1, NoEvent, ord), txn)

\* Arena.underlying for a transaction handed to store name: the error kind.
underlying(name, txn) ==
    IF txn.arena # name THEN "InvalidTransaction"
    ELSE IF txn.stale THEN "InvalidTransaction"
    ELSE "OK"

\* The period of the scavenger sweep in Arena.Commit.
ScavengePeriod == 10

-----------------------------------------------------------------------------
(* Tree engine: policies, Commit and the store around the transaction.     *)

\* lazyPolicy: the bytes are held compressed and decompressed by get.
newLazyPolicy(bs) == [z |-> <<"z", bs>>]
lazyGet(pol) == pol.z[2]

\* policyUpdate
policyUpdate(value, rm) == [value |-> value, remove |-> rm]

\* transaction.updatePolicy, UpsertPolicy and DeletePolicy
updatePolicy(txn, id, update) ==
    IF ~txn.write THEN TxnRes("InvalidTransaction", txn)
    ELSE TxnRes("OK", [txn EXCEPT !.policies = MapPut(@, id, update)])

TreeUpsertPolicy(txn, id, bs) == updatePolicy(txn, id, policyUpdate(newLazyPolicy(bs), FALSE))
TreeDeletePolicy(txn, id) == updatePolicy(txn, id, policyUpdate(newLazyPolicy(NoBytes), TRUE))

\* transaction.GetPolicy over the committed policies db.policies.
TreeGetPolicy(txn, policies, id) ==
    IF id \in DOMAIN txn.policies
    THEN IF txn.policies[id].remove THEN Err("NotFound")
         ELSE Ok(StrV(lazyGet(txn.policies[id].value)))
    ELSE IF id \in DOMAIN policies THEN Ok(StrV(lazyGet(policies[id])))
    ELSE Err("NotFound")

\* transaction.ListPolicies; ord is the order of the two map visits.
TreeListPolicies(txn, policies, ord) ==
    SelectSeq(KeysIn(ord, policies), LAMBDA id : id \notin DOMAIN txn.policies)
    \o SelectSeq(KeysIn(ord, txn.policies), LAMBDA id : ~txn.policies[id].remove)

\* The store of the tree engine as New leaves it: an empty root object.
NewTree ==
    [data |-> EmptyObj, policies |-> [k \in {} |-> newLazyPolicy("")],
     triggers |-> {}, fired |-> <<>>, wmu |-> FALSE]

\* The policy loop of transaction.Commit (txn.go 338-369) over the ids in
\* the order ord of the map visit.
RECURSIVE treeCommitPolicies(_, _, _, _)
treeCommitPolicies(db, upds, ids, event) ==
    IF Len(ids) = 0 THEN [db |-> db, event |-> event]
    ELSE LET id == Head(ids)
             upd == upds[id]
             db1 == [db EXCEPT !.policies = IF upd.remove THEN MapDel(@, id)
                                            ELSE MapPut(@, id, upd.value)]
             ev == [id |-> id,
                    data |-> IF upd.remove THEN NoBytes ELSE lazyGet(upd.value),
                    removed |-> upd.remove]
         IN  treeCommitPolicies(db1, upds, Tail(ids),
                                IF db.triggers # {}
                                THEN [event EXCEPT !.policy = Append(@, ev)]
                                ELSE event)

\* transaction.Commit: the store after it, the event and "Panic" when an
\* update's Apply panics.
TreeCommit(txn, db, ord) ==
    LET data1 == applyAll(txn.updates, db.data)
        ev0 == [NoEvent EXCEPT !.data = IF db.triggers # {}
                                        THEN DataEvents(txn.updates) ELSE <<>>]
        r == treeCommitPolicies([db EXCEPT !.data = data1], txn.policies,
                                KeysIn(ord, txn.policies), ev0)
    IN  IF data1.t = "panic" THEN [db |-> db, event |-> NoEvent, err |-> "Panic"]
        ELSE [db |-> r.db, event |-> r.event, err |-> "OK"]

\* The store's check of the transaction handed to a call: a stale
\* transaction is rejected.
treeUnderlying(txn) == IF txn.stale THEN "InvalidTransaction" ELSE "OK"

-----------------------------------------------------------------------------
(* Arena engine: the store's methods.  Each gives the store and the        *)
(* transaction as the call leaves them and the call's result; name is the  *)
(* store the call is made on.  A call that panics or never returns has     *)
(* the result "Panic" or "Hang" and leaves the locks as they were then.    *)

CallRes(a, txn, r) == [a |-> a, txn |-> txn, res |-> r]

\* Arena.NewTransaction; it blocks while wmu is held (the caller's guard).
ArenaNewTransaction(name, a, write) ==
    CallRes([a EXCEPT !.wmu = IF write THEN TRUE ELSE @],
            ArenaTxn(name, a.rootIdx, write), Ok(Null))

\* Arena.Read
ArenaRead(name, a, txn, path) ==
    IF underlying(name, txn) # "OK" THEN CallRes(a, txn, Err(underlying(name, txn)))
    ELSE CallRes(a, txn, ArenaTxnRead(txn, a.h, path))

\* Arena.Write
\* The result of a store call that returns the error of the transaction's
\* method: r is that method's outcome.
Returned(a, r) == CallRes(a, r.txn, IF r.err = "OK" THEN Ok(Null) ELSE Err(r.err))

ArenaWrite(name, a, txn, op, path, value) ==
    IF underlying(name, txn) # "OK" THEN CallRes(a, txn, Err(underlying(name, txn)))
    ELSE Returned(ensureRoot(a), ArenaTxnWrite(txn, op, path, value))

\* Arena.runOnCommitTriggers: the events the registered triggers receive,
\* appended to those they received before.
runOnCommitTriggers(a, event) ==
    IF a.triggers = {} THEN a ELSE [a EXCEPT !.fired = Append(@, event)]

\* Arena.Commit
\* arena.go 290-297: the writer lock is released, the commit counted and
\* every tenth commit followed by the sweep.
unlockAndCount(a) ==
    [a EXCEPT !.wmu = FALSE, !.commitCount = a.commitCount + 1,
              !.h = IF (a.commitCount + 1) % ScavengePeriod = 0 THEN scavenge(@) ELSE @]

\* arena.go 286-297 with c the outcome of the transaction's Commit.
committed(c, txn) ==
    IF c.err # "OK" THEN CallRes(c.a, txn, Err(c.err))
    ELSE CallRes(unlockAndCount(runOnCommitTriggers(c.a, c.event)),
                 [txn EXCEPT !.stale = TRUE], Ok(Null))

ArenaCommit(name, a, txn, ord) ==
    IF underlying(name, txn) # "OK" THEN CallRes(a, txn, Err(underlying(name, txn)))
    ELSE IF ~txn.write THEN CallRes(a, txn, Ok(Null))
    ELSE committed(ArenaTxnCommit(txn, a, ord), txn)

\* Arena.Abort without the test of underlying.write (arena.go 312): the
\* writer lock is released for a read transaction too.  C3_SingleWriter
\* fails under it.
ArenaAbortUnlocking(name, a, txn) ==
    IF underlying(name, txn) # "OK" THEN CallRes(a, txn, Err("Panic"))
    ELSE CallRes([a EXCEPT !.wmu = FALSE], [txn EXCEPT !.stale = TRUE], Ok(Null))

\* Arena.Abort
ArenaAbort(name, a, txn) ==
    IF underlying(name, txn) # "OK" THEN CallRes(a, txn, Err("Panic"))
    ELSE CallRes([a EXCEPT !.wmu = IF txn.write THEN FALSE ELSE @],
                 [txn EXCEPT !.stale = TRUE], Ok(Null))

\* Arena.ListPolicies, GetPolicy, UpsertPolicy and DeletePolicy
ArenaListPolicies(name, a, txn, ord) ==
    IF underlying(name, txn) # "OK" THEN CallRes(a, txn, Err(underlying(name, txn)))
    ELSE CallRes(a, txn, Ok(ArrV(ArenaTxnListPolicies(txn, a.policies, ord))))

ArenaGetPolicy(name, a, txn, id) ==
    IF underlying(name, txn) # "OK" THEN CallRes(a, txn, Err(underlying(name, txn)))
    ELSE CallRes(a, txn, ArenaTxnGetPolicy(txn, a.policies, id))

ArenaUpsertPolicy(name, a, txn, id, bs) ==
    IF underlying(name, txn) # "OK" THEN CallRes(a, txn, Err(underlying(name, txn)))
    ELSE Returned(a, ArenaTxnUpsertPolicy(txn, id, bs))

ArenaDeletePolicy(name, a, txn, id) ==
    IF underlying(name, txn) # "OK" THEN CallRes(a, txn, Err(underlying(name, txn)))
    ELSE Returned(a, ArenaTxnDeletePolicy(txn, id))

\* Arena.Register; hd is the new handle.
ArenaRegister(name, a, txn, hd) ==
    IF underlying(name, txn) # "OK" THEN CallRes(a, txn, Err(underlying(name, txn)))
    ELSE IF ~txn.write THEN CallRes(a, txn, Err("InvalidTransaction"))
    ELSE CallRes([a EXCEPT !.triggers = @ \cup {hd}], txn, Ok(Null))

\* handle.Unregister without the delete (arena.go 396): the trigger stays
\* registered.  C18_TriggersSynchronous fails under it.
ArenaUnregisterKeeping(name, a, txn, hd) ==
    IF underlying(name, txn) # "OK" THEN CallRes(a, txn, Err("Panic"))
    ELSE IF ~txn.write THEN CallRes(a, txn, Err("Panic"))
    ELSE CallRes(a, txn, Ok(Null))

\* handle.Unregister of the handle hd: it panics on a transaction the store
\* rejects and on a read transaction.
ArenaUnregister(name, a, txn, hd) ==
    IF underlying(name, txn) # "OK" THEN CallRes(a, txn, Err("Panic"))
    ELSE IF ~txn.write THEN CallRes(a, txn, Err("Panic"))
    ELSE CallRes([a EXCEPT !.triggers = @ \ {hd}], txn, Ok(Null))

-----------------------------------------------------------------------------
(* Tree engine: the store's methods, in the same form.                     *)

\* store.NewTransaction
TreeNewTransaction(db, write) ==
    CallRes([db EXCEPT !.wmu = IF write THEN TRUE ELSE @], TreeTxn(write), Ok(Null))

\* store.Read
TreeStoreRead(db, txn, path) ==
    IF treeUnderlying(txn) # "OK" THEN CallRes(db, txn, Err(treeUnderlying(txn)))
    ELSE CallRes(db, txn, TreeRead(txn, db.data, path))

\* store.Write
TreeStoreWrite(db, txn, op, path, value) ==
    IF treeUnderlying(txn) # "OK" THEN CallRes(db, txn, Err(treeUnderlying(txn)))
    ELSE Returned(db, TreeWrite(txn, db.data, op, path, value))

\* store.Commit; treeCommitted is its end, c the outcome of the
\* transaction's Commit.
treeCommitted(db, c, txn) ==
    IF c.err # "OK" THEN CallRes(db, txn, Err(c.err))
    ELSE CallRes([runOnCommitTriggers(c.db, c.event) EXCEPT !.wmu = FALSE],
                 [txn EXCEPT !.stale = TRUE, !.pathIndex = NoIndex], Ok(Null))

TreeStoreCommit(db, txn, ord) ==
    IF treeUnderlying(txn) # "OK" THEN CallRes(db, txn, Err(treeUnderlying(txn)))
    ELSE IF ~txn.write THEN CallRes(db, [txn EXCEPT !.stale = TRUE], Ok(Null))
    ELSE treeCommitted(db, TreeCommit(txn, db, ord), txn)

\* store.Abort
TreeStoreAbort(db, txn) ==
    IF treeUnderlying(txn) # "OK" THEN CallRes(db, txn, Err("Panic"))
    ELSE CallRes([db EXCEPT !.wmu = IF txn.write THEN FALSE ELSE @],
                 [txn EXCEPT !.stale = TRUE], Ok(Null))

\* store.ListPolicies, GetPolicy, UpsertPolicy and DeletePolicy
TreeStoreListPolicies(db, txn, ord) ==
    IF treeUnderlying(txn) # "OK" THEN CallRes(db, txn, Err(treeUnderlying(txn)))
    ELSE CallRes(db, txn, Ok(ArrV(TreeListPolicies(txn, db.policies, ord))))

TreeStoreGetPolicy(db, txn, id) ==
    IF treeUnderlying(txn) # "OK" THEN CallRes(db, txn, Err(treeUnderlying(txn)))
    ELSE CallRes(db, txn, TreeGetPolicy(txn, db.policies, id))

TreeStoreUpsertPolicy(db, txn, id, bs) ==
    IF treeUnderlying(txn) # "OK" THEN CallRes(db, txn, Err(treeUnderlying(txn)))
    ELSE Returned(db, TreeUpsertPolicy(txn, id, bs))

TreeStoreDeletePolicy(db, txn, id) ==
    IF treeUnderlying(txn) # "OK" THEN CallRes(db, txn, Err(treeUnderlying(txn)))
    ELSE Returned(db, TreeDeletePolicy(txn, id))

\* store.Register
TreeStoreRegister(db, txn, hd) ==
    IF treeUnderlying(txn) # "OK" THEN CallRes(db, txn, Err(treeUnderlying(txn)))
    ELSE IF ~txn.write THEN CallRes(db, txn, Err("InvalidTransaction"))
    ELSE CallRes([db EXCEPT !.triggers = @ \cup {hd}], txn, Ok(Null))

-----------------------------------------------------------------------------
(* PolicyStore (v1/storage/arena/breakeven_test.go): the policies as a    *)
(* chain of nodes in a slice.  Node index i of the code is nodes[i + 1].   *)

\* policyNode
policyNode(id, data, next, removed) ==
    [id |-> id, data |-> data, next |-> next, removed |-> removed]

\* NewPolicyStore
NewPolicyStore == [head |-> -1, nodes |-> <<>>, count |-> 0]

\* PolicyStore.alloc: the first removed node is taken again, where it is;
\* otherwise the slice grows by one node.
FirstRemoved(ps) ==
    CHOOSE i \in DOMAIN ps.nodes :
        /\ ps.nodes[i].removed
        /\ \A j \in 1..(i - 1) : ~ps.nodes[j].removed

psAlloc(ps) ==
    IF \E i \in DOMAIN ps.nodes : ps.nodes[i].removed
    THEN [ps |-> [ps EXCEPT !.nodes[FirstRemoved(ps)].removed = FALSE,
                            !.nodes[FirstRemoved(ps)].data = NoBytes],
          idx |-> FirstRemoved(ps) - 1]
    ELSE [ps |-> [ps EXCEPT !.nodes = Append(@, policyNode("", NoBytes, -1, FALSE))],
          idx |-> Len(ps.nodes)]

\* The loop of Upsert, Get and Delete from node curr on: k is "found" with
\* idx the node of id that is not removed, "end" when the chain ends
\* without one and "hang" when the chain has a cycle and the loop never
\* ends; prev is the node visited last.  A chain without cycle visits no
\* more nodes than the slice holds, which is what fuel counts.
RECURSIVE psSearch(_, _, _, _, _)
psSearch(ps, id, curr, prev, fuel) ==
    IF curr = -1 THEN [k |-> "end", idx |-> -1, prev |-> prev]
    ELSE IF fuel = 0 THEN [k |-> "hang", idx |-> -1, prev |-> prev]
    ELSE IF ~ps.nodes[curr + 1].removed /\ ps.nodes[curr + 1].id = id
         THEN [k |-> "found", idx |-> curr, prev |-> prev]
         ELSE psSearch(ps, id, ps.nodes[curr + 1].next, curr, fuel - 1)

psFind(ps, id) == psSearch(ps, id, ps.head, -1, Len(ps.nodes))

\* The outcome of a PolicyStore method: the store and the result.
PsRes(ps, r) == [ps |-> ps, res |-> r]

\* PolicyStore.Upsert, lines 361-377: a is the outcome of alloc, prev the
\* node the search visited last; head is tested after the new node is set.
psInserted(a, id, data, prev) ==
    [a.ps EXCEPT
        !.nodes = IF a.ps.head = -1
                  THEN [@ EXCEPT ![a.idx + 1] = policyNode(id, data, -1, FALSE)]
                  ELSE [[@ EXCEPT ![a.idx + 1] = policyNode(id, data, -1, FALSE)]
                            EXCEPT ![prev + 1].next = a.idx],
        !.head = IF @ = -1 THEN a.idx ELSE @,
        !.count = @ + 1]

psUpserted(ps, f, id, data) ==
    CASE f.k = "hang" -> PsRes(ps, Err("Hang"))
      [] f.k = "found" -> PsRes([ps EXCEPT !.nodes[f.idx + 1].data = data], Ok(Null))
      [] OTHER -> PsRes(psInserted(psAlloc(ps), id, data, f.prev), Ok(Null))

PsUpsert(ps, id, data) == psUpserted(ps, psFind(ps, id), id, data)

\* PolicyStore.Get
psGot(ps, f) ==
    CASE f.k = "hang" -> PsRes(ps, Err("Hang"))
      [] f.k = "found" -> PsRes(ps, Ok(StrV(ps.nodes[f.idx + 1].data)))
      [] OTHER -> PsRes(ps, Err("NotFound"))

PsGet(ps, id) == psGot(ps, psFind(ps, id))

\* PolicyStore.Delete: the node is marked and stays in the chain.
psDeleted(ps, f) ==
    CASE f.k = "hang" -> PsRes(ps, Err("Hang"))
      [] f.k = "found" ->
            PsRes([ps EXCEPT !.nodes[f.idx + 1].removed = TRUE, !.count = @ - 1],
                  Ok(Null))
      [] OTHER -> PsRes(ps, Err("NotFound"))

PsDelete(ps, id) == psDeleted(ps, psFind(ps, id))

\* PolicyStore.List; psListFrom is its loop, "hang" when it never ends.
RECURSIVE psListFrom(_, _, _)
psListFrom(ps, curr, fuel) ==
    IF curr = -1 THEN <<>>
    ELSE IF fuel = 0 THEN <<"hang">>
    ELSE (IF ps.nodes[curr + 1].removed THEN <<>> ELSE <<ps.nodes[curr + 1].id>>)
         \o psListFrom(ps, ps.nodes[curr + 1].next, fuel - 1)

psListed(ps, ids) ==
    IF Len(ids) > 0 /\ ids[Len(ids)] = "hang" THEN PsRes(ps, Err("Hang"))
    ELSE PsRes(ps, Ok(ArrV(ids)))

PsList(ps) ==
    IF ps.count = 0 THEN PsRes(ps, Ok(ArrV(<<>>)))
    ELSE psListed(ps, psListFrom(ps, ps.head, Len(ps.nodes)))

\* PolicyStore.Len
PsLen(ps) == ps.count

-----------------------------------------------------------------------------
(* Paths as strings (v1/storage/path.go).  A string is the sequence of its *)
(* bytes, a path the sequence of its segments.                             *)

Slash == 47
Percent == 37

\* shouldEscapePath: letters, digits and - _ . ~ are written as they are.
shouldEscapePath(c) ==
    ~ \/ (97 <= c /\ c <= 122)
      \/ (65 <= c /\ c <= 90)
      \/ (48 <= c /\ c <= 57)
      \/ c \in {45, 95, 46, 126}

\* upperhex[n]
upperhex(n) == IF n < 10 THEN 48 + n ELSE 55 + n

\* The inner loop of Path.String over the bytes of a segment.
RECURSIVE escapeBytes(_)
escapeBytes(seg) ==
    IF Len(seg) = 0 THEN <<>>
    ELSE (IF shouldEscapePath(Head(seg))
          THEN <<Percent, upperhex(Head(seg) \div 16), upperhex(Head(seg) % 16)>>
          ELSE <<Head(seg)>>)
         \o escapeBytes(Tail(seg))

\* Path.String
RECURSIVE stringFrom(_)
stringFrom(p) ==
    IF Len(p) = 0 THEN <<>>
    ELSE <<Slash>> \o escapeBytes(Head(p)) \o stringFrom(Tail(p))

String(p) == IF Len(p) = 0 THEN <<Slash>> ELSE stringFrom(p)

\* strings.Split(str, "/"): cur is the piece being read.
RECURSIVE splitFrom(_, _)
splitFrom(str, cur) ==
    IF Len(str) = 0 THEN <<cur>>
    ELSE IF Head(str) = Slash THEN <<cur>> \o splitFrom(Tail(str), <<>>)
    ELSE splitFrom(Tail(str), Append(cur, Head(str)))

Split(str) == splitFrom(str, <<>>)

\* InternPathSegment gives a string of the same bytes.
InternedBytes(seg) == seg

\* ParsePath
Parsed(path, ok) == [path |-> path, ok |-> ok]
ParsePath(str) ==
    IF Len(str) = 0 \/ str[1] # Slash THEN Parsed(<<>>, FALSE)
    ELSE IF Len(str) = 1 THEN Parsed(<<>>, TRUE)
    ELSE Parsed([i \in DOMAIN Split(Tail(str)) |-> InternedBytes(Split(Tail(str))[i])],
                TRUE)

\* hexToInt: -1 when c is no hexadecimal digit.
hexToInt(c) ==
    IF 48 <= c /\ c <= 57 THEN c - 48
    ELSE IF 97 <= c /\ c <= 102 THEN c - 97 + 10
    ELSE IF 65 <= c /\ c <= 70 THEN c - 65 + 10
    ELSE -1

\* unescapePathSegment; unescapeFrom is its loop from byte i (from 1) with
\* sb the bytes written so far.
Unescaped(seg, ok) == [seg |-> seg, ok |-> ok]
RECURSIVE unescapeFrom(_, _, _)
unescapeFrom(seg, i, sb) ==
    IF i > Len(seg) THEN Unescaped(InternedBytes(sb), TRUE)
    ELSE IF seg[i] # Percent THEN unescapeFrom(seg, i + 1, Append(sb, seg[i]))
    ELSE IF i + 2 > Len(seg) THEN Unescaped(<<>>, FALSE)
    ELSE IF hexToInt(seg[i + 1]) < 0 \/ hexToInt(seg[i + 2]) < 0
         THEN Unescaped(<<>>, FALSE)
    ELSE unescapeFrom(seg, i + 3,
                      Append(sb, hexToInt(seg[i + 1]) * 16 + hexToInt(seg[i + 2])))

unescapePathSegment(seg) ==
    IF \A i \in DOMAIN seg : seg[i] # Percent THEN Unescaped(InternedBytes(seg), TRUE)
    ELSE unescapeFrom(seg, 1, <<>>)

\* ParsePathEscaped
unescapedAll(r) ==
    IF ~r.ok THEN Parsed(<<>>, FALSE)
    ELSE IF \E i \in DOMAIN r.path : ~unescapePathSegment(r.path[i]).ok
         THEN Parsed(<<>>, FALSE)
    ELSE Parsed([i \in DOMAIN r.path |-> unescapePathSegment(r.path[i]).seg], TRUE)

ParsePathEscaped(str) == unescapedAll(ParsePath(str))

-----------------------------------------------------------------------------
(* One caller driving both engines with the same calls.                    *)
(* Spec: a tree store and an arena store, both as constructed, receive     *)
(* the same sequence of store calls from one session; res keeps the last   *)
(* call with the result of each engine.                                    *)

VARIABLES
    tree,     \* the tree store
    ttxn,     \* the session's transaction on the tree store
    arena,    \* the arena store
    atxn,     \* the session's transaction on the arena store
    phase,    \* "idle", "open" (a transaction is begun) or "halt" (a call panicked)
    res,      \* the last call, its arguments and the result of each engine
    begun,    \* the committed documents when the transaction began, per engine,
              \* and the number of calls that write made before it
    view,     \* the documents the accepted writes of the transaction produce
    nWrites,  \* calls that write, so far
    nTxns,    \* transactions begun so far
    store,    \* SpecArena: the arena store shared by the handles
    handles,  \* SpecArena: the transactions begun on it, and one of another store
    last,     \* SpecArena: the last call on the store
    acquirer, \* SpecArena: the handle whose Begin took the writer lock last, 0 if none
    ended,    \* SpecArena: the handles Commit or Abort was called with
    snap,     \* SpecArena: the store as it was when the acquirer began
    nCalls,   \* SpecArena: calls that write, so far
    committing, \* SpecRace: the Commit in progress, from rmu.Lock to wmu.Unlock
    trig,     \* SpecRace: the trigger handles made, unregistered and invoked
    ps,       \* SpecStore: the PolicyStore
    psLive,   \* SpecStore: the policies upserted and not deleted since, by id
    psRes,    \* SpecStore: the last call on the PolicyStore and its result
    psCalls,  \* SpecStore: Upsert and Delete calls, so far
    pth,      \* SpecPath: the path formatted, its string and the path parsed from it
    itn,      \* SpecIntern: the interning table, the callers and what was returned
    sw,       \* SpecSweep: the arena, its writer and the scavenger's sweeps
    ix,       \* SpecIndex: a write transaction of the tree engine and its last Write
    al,       \* SpecAlloc: the arena's heap, an allocating writer and a sweep
    lk,       \* SpecLocks: the arena's locks and the place of each goroutine
    ld        \* a value loaded into an arena and read back

vars == <<tree, ttxn, arena, atxn, phase, res, begun, view, nWrites, nTxns,
          store, handles, last, acquirer, ended, snap, nCalls, committing, trig,
          ps, psLive, psRes, psCalls, pth, itn, sw, ix, al, lk, ld>>
sessionVars == <<tree, ttxn, arena, atxn, phase, res, begun, view, nWrites, nTxns>>
arenaVars == <<store, handles, last, acquirer, ended, snap, nCalls>>
storeVars == <<ps, psLive, psRes, psCalls>>
pathVars == <<pth>>
internVars == <<itn>>
sweepVars == <<sw>>
indexVars == <<ix>>
allocVars == <<al>>
lockVars == <<lk>>
loadVars == <<ld>>
unitVars == <<storeVars, pathVars, internVars, sweepVars, indexVars, allocVars, lockVars, loadVars>>
mainVars == <<sessionVars, arenaVars, committing, trig>>
raceVars == <<committing, trig, unitVars>>

MaxWrites == 2
MaxTxns == 2
MaxHandles == 2
MaxTriggers == 1
MaxRegs == 2
MaxStoreCalls == 4
MaxSegLen == 3
MaxPathLen == 2
MaxInternCalls == 3
SeedCommits == 8
MaxSweepCommits == 3
MaxSweepWrites == 2
MaxMarks == 1
MaxTicks == 1
MaxIndexWrites == 3
MaxAllocs == 4
MaxAllocTicks == 2

ValX == StrV("x")
ValY == StrV("y")
ReadPaths == {<<>>, <<"a">>, <<"a", "b">>, <<"a", "0">>, <<"c">>}
WritePaths == ReadPaths \cup {<<"a", "-">>, <<"a", "2">>, <<"a", "3">>}
WriteValues == {ValX, ObjV("b" :> ValX), ArrV(<<ValX, ValY>>)}
WriteOps == {"add", "replace"}
PolicyIds == {"p"}
PolicyBytes == {"m1"}
KeyOrders == {<<"a", "b", "c", "p", "q">>, <<"q", "p", "c", "b", "a">>}

\* The committed document of the arena store; a store whose root is not
\* created yet holds the empty document.
ArenaDoc(a) == IF a.rootIdx = -1 THEN EmptyObj ELSE ToInterface(a.h, a.rootIdx)

NoCall == [call |-> "none", op |-> "", path |-> <<>>, value |-> Null,
           tree |-> Ok(Null), arena |-> Ok(Null)]
Call(c, op, path, value, t, a) ==
    [call |-> c, op |-> op, path |-> path, value |-> value, tree |-> t, arena |-> a]

\* The last call of SpecArena: h is the handle it was made with, pre says
\* whether that handle was "live", "ended" (Commit or Abort had been called
\* with it) or "foreign" (a transaction of another store) at the call.
NoArenaCall == [call |-> "none", h |-> 0, pre |-> "live", path |-> <<>>, arena |-> Ok(Null)]
ArenaCall(c, i, pre, path, a) == [call |-> c, h |-> i, pre |-> pre, path |-> path, arena |-> a]

\* What Abort must leave as it was: the committed document, the committed
\* policies and the root index.
Snapshot(a) == [doc |-> ArenaDoc(a), policies |-> a.policies, rootIdx |-> a.rootIdx]

\* The Commit in progress: h the handle it was called with (0: none), stage
\* how far it is ("data": rmu held, the data loop runs; "applied": the
\* updates are applied and rmu released; "triggered": the triggers have
\* run), next the position of the update the data loop applies next, ord
\* the order of its map visits, event the event built so far, before the
\* store when rmu was taken and after the store the whole Commit leaves.
NoCommit ==
    [h |-> 0, stage |-> "none", next |-> 0, ord |-> <<>>, event |-> NoEvent,
     before |-> NewArena, after |-> NewArena]

\* The trigger handles: regs counts the handles Register has returned
\* (handle k is the k-th), gone holds those Unregister was called with and
\* invoked lists the triggers the last Commit invoked, in order.
NoTriggers == [regs |-> 0, gone |-> {}, invoked |-> <<>>]

Halts(t, a) == t.err \in {"Panic", "Hang"} \/ a.err \in {"Panic", "Hang"}

\* The PolicyStore call: c the method, id and data its arguments, r the
\* result.
NoStoreCall == [call |-> "none", id |-> "", data |-> NoBytes, res |-> Ok(Null)]
StoreCall(c, id, data, r) == [call |-> c, id |-> id, data |-> data, res |-> r]

-----------------------------------------------------------------------------
(* Interned path segments (v1/storage/interning.go).                       *)
(* A string is its bytes val and the instance inst holding them: two       *)
(* strings are equal when their bytes are, identical when their instances  *)
(* are.  Instance 0 is the one the table is constructed with.  The table   *)
(* is read under RLock and written under Lock; each of the two critical    *)
(* sections is one step of the caller.                                     *)

Str(val, inst) == [val |-> val, inst |-> inst]

\* "data", "input", "config", "policies", "system", "bundles" and "".
PreInterned == {
    <<100, 97, 116, 97>>,
    <<105, 110, 112, 117, 116>>,
    <<99, 111, 110, 102, 105, 103>>,
    <<112, 111, 108, 105, 99, 105, 101, 115>>,
    <<115, 121, 115, 116, 101, 109>>,
    <<98, 117, 110, 100, 108, 101, 115>>,
    <<>>}

internedPathSegments == [val \in PreInterned |-> 0]

MaxInternedLen == 32

allDigits(val) ==
    /\ Len(val) > 0
    /\ Len(val) <= 3
    /\ \A i \in DOMAIN val : val[i] >= 48 /\ val[i] <= 57

\* A caller of InternPathSegment: pc its position, s its argument and ret
\* the string returned.
InternIdle == [pc |-> "idle", s |-> Str(<<>>, 0), ret |-> Str(<<>>, 0)]
InternReturn(s, ret) == [pc |-> "done", s |-> s, ret |-> ret]

\* InternPathSegment up to its first lock: the switch on the constructed
\* segments returns the argument, a string above 32 bytes is returned as it
\* is, digits and every other string go on to the table.
internEnter(s) ==
    IF Len(s.val) <= 10 /\ s.val \in PreInterned THEN InternReturn(s, s)
    ELSE IF Len(s.val) <= 10 /\ allDigits(s.val) THEN [pc |-> "rlock", s |-> s, ret |-> s]
    ELSE IF Len(s.val) > MaxInternedLen THEN InternReturn(s, s)
    ELSE [pc |-> "rlock", s |-> s, ret |-> s]

\* The lookup under RLock.
internRLocked(tbl, s) ==
    IF s.val \in DOMAIN tbl THEN InternReturn(s, Str(s.val, tbl[s.val]))
    ELSE [pc |-> "lock", s |-> s, ret |-> s]

\* internLocked without the second lookup (interning.go 109-112 left out):
\* the caller's instance is stored over the one the table holds.
internLockedUnchecked(tbl, s) ==
    [tbl |-> [val \in DOMAIN tbl \cup {s.val} |-> IF val = s.val THEN s.inst ELSE tbl[val]],
     th |-> InternReturn(s, s)]

\* The second lookup and the store under Lock.
internLocked(tbl, s) ==
    IF s.val \in DOMAIN tbl
    THEN [tbl |-> tbl, th |-> InternReturn(s, Str(s.val, tbl[s.val]))]
    ELSE [tbl |-> [val \in DOMAIN tbl \cup {s.val} |-> IF val = s.val THEN s.inst ELSE tbl[val]],
          th |-> InternReturn(s, s)]

InternThreads == {1, 2}

NewInterning ==
    [tbl |-> internedPathSegments,
     th |-> [t \in InternThreads |-> InternIdle],
     rets |-> {},
     calls |-> 0]

-----------------------------------------------------------------------------
(* The arena under its scavenger.                                          *)
(* a is the store and txn its write transaction while open is TRUE.  bg is *)
(* the goroutine of StartScavenger: pc "idle" between ticks, "scan" before *)
(* it loads the type of node i, "free" between that load and free(i).      *)
(* pre holds the tombstones that were in the arena when the sweep of       *)
(* Commit began, swept is TRUE in the state that sweep leaves, and others  *)
(* holds the nodes a sweep freed that were no tombstone when it freed      *)
(* them.                                                                   *)

\* The store after n write transactions committed without an update.
RECURSIVE emptyCommits(_, _)
emptyCommits(a, n) ==
    IF n = 0 THEN a
    ELSE emptyCommits(ArenaCommit("A", ArenaNewTransaction("A", a, TRUE).a,
                                  ArenaNewTransaction("A", a, TRUE).txn, <<>>).a, n - 1)

SweeperIdle == [pc |-> "idle", i |-> 0, limit |-> 0]

NewSweep ==
    [a |-> emptyCommits(NewArena, SeedCommits),
     txn |-> ArenaTxn("A", -1, FALSE),
     open |-> FALSE,
     bg |-> SweeperIdle,
     pre |-> {},
     swept |-> FALSE,
     others |-> {},
     commits |-> 0,
     marks |-> 0,
     ticks |-> 0]

\* The path formatted last: p the path, str its string, call the function
\* applied to str last and r what it returned.
NoPath == [p |-> <<>>, str |-> <<>>, call |-> "none", r |-> Parsed(<<>>, FALSE)]

\* A write transaction of the tree engine on the document data: call is the
\* Write made last with its error kind, before the transaction as that
\* Write found it, linear what the same Write returns and leaves pending
\* when the exact path is looked up by the linear scan, n the Writes made.
NoWrite == [op |-> "", path |-> <<>>, value |-> Null, err |-> "none"]
IndexRun(txn, data) ==
    [txn |-> txn, data |-> data, call |-> NoWrite, before |-> txn,
     linear |-> [err |-> "none", updates |-> txn.updates], n |-> 0]
NoRun == IndexRun(TreeTxn(FALSE), EmptyObj)

\* The heap of an arena with the writer that allocates and frees its nodes
\* and the scavenger's sweep.  pc is the writer's place in alloc and idx the
\* index it claimed; live are the indices alloc returned that were not freed
\* since, freed those freed and not returned since, the last freed last;
\* want is the index due when the running alloc began; last is the alloc
\* that returned last: its index, the index due, the node as returned and
\* whether the index was live already.  sc is the sweep's place, fault is
\* set when the sweep takes the node of a segment not yet created.
NoAllocCall == [idx |-> -1, want |-> -1, node |-> ResetNode, again |-> FALSE]
SweepIdle == [pc |-> "idle", limit |-> 0, i |-> 0]
NoAlloc ==
    [h |-> EmptyHeap, pc |-> "idle", idx |-> -1, want |-> -1, live |-> {},
     freed |-> <<>>, last |-> NoAllocCall, sc |-> SweepIdle, fault |-> FALSE,
     allocs |-> 0, ticks |-> 0]

\* The locks of an arena and the goroutines that call it.  wmu and mu hold
\* the goroutine that locked them, 0 when free; a sync.RWMutex holds its
\* readers, the writer that locked it and the writer that has announced
\* itself and waits for the readers to leave, which keeps new readers out.
\* pc is each goroutine's place, kind the transaction it begins or holds,
\* waited whether its NewTransaction found the writer lock taken, bg the
\* place of the background scavenger.
LockThreads == {1, 2, 3}
RWMutex == [readers |-> {}, writer |-> 0, waiting |-> 0]
NoLocks ==
    [wmu |-> 0, mu |-> 0, rmu |-> RWMutex, policiesMu |-> RWMutex,
     pc |-> [t \in LockThreads |-> "idle"],
     kind |-> [t \in LockThreads |-> "r"],
     waited |-> [t \in LockThreads |-> FALSE],
     bg |-> "idle"]

\* The loader before any call: a new arena (NewWithOpts creates no segment),
\* no value loaded (idx -2) and none read back.
NoLoad ==
    [h |-> EmptyHeap, v |-> Null, idx |-> -2, out |-> Null, pc |-> "idle", loads |-> 0]

\* The components as constructed.
UnitInit ==
    /\ ps = NewPolicyStore
    /\ psLive = [k \in {} |-> NoBytes]
    /\ psRes = NoStoreCall
    /\ psCalls = 0
    /\ pth = NoPath
    /\ itn = NewInterning
    /\ sw = NewSweep
    /\ ix = NoRun
    /\ al = NoAlloc
    /\ lk = NoLocks
    /\ ld = NoLoad

Init ==
    /\ tree = NewTree
    /\ ttxn = [TreeTxn(FALSE) EXCEPT !.stale = TRUE]
    /\ arena = NewArena
    /\ atxn = [ArenaTxn("A", -1, FALSE) EXCEPT !.stale = TRUE]
    /\ phase = "idle"
    /\ res = NoCall
    /\ begun = [tree |-> EmptyObj, arena |-> EmptyObj, nWrites |-> 0]
    /\ view = [tree |-> EmptyObj, arena |-> EmptyObj]
    /\ nWrites = 0
    /\ nTxns = 0
    /\ store = NewArena
    /\ handles = <<>>
    /\ last = NoArenaCall
    /\ acquirer = 0
    /\ ended = {}
    /\ snap = Snapshot(NewArena)
    /\ nCalls = 0
    /\ committing = NoCommit
    /\ trig = NoTriggers
    /\ UnitInit

\* The stores and the transactions after a call made on both stores, t
\* and a the outcomes of the tree and the arena store.
Stepped(c, op, path, value, t, a) ==
    /\ tree' = t.a
    /\ ttxn' = t.txn
    /\ arena' = a.a
    /\ atxn' = a.txn
    /\ res' = Call(c, op, path, value, t.res, a.res)

\* Begin(write) on both stores.
Begin(write) ==
    /\ phase = "idle"
    /\ nTxns < MaxTxns
    /\ Stepped("begin", "", <<>>, BoolV(write),
               TreeNewTransaction(tree, write), ArenaNewTransaction("A", arena, write))
    /\ begun' = [tree |-> tree.data, arena |-> ArenaDoc(arena), nWrites |-> nWrites]
    /\ view' = [tree |-> tree.data, arena |-> ArenaDoc(arena)]
    /\ phase' = "open"
    /\ nTxns' = nTxns + 1
    /\ UNCHANGED <<nWrites, arenaVars, raceVars>>

\* Write(op, path, value) on both stores with the open transaction.
Write(op, path, value) ==
    /\ phase = "open"
    /\ nWrites < MaxWrites
    /\ Stepped("write", op, path, value,
               TreeStoreWrite(tree, ttxn, op, path, value),
               ArenaWrite("A", arena, atxn, op, path, value))
    /\ view' = [tree |-> IF res'.tree.err = "OK"
                         THEN applyPatch(view.tree, path, op, value)
                         ELSE view.tree,
                arena |-> IF res'.arena.err = "OK"
                          THEN applyPatch(view.arena, path, op, value)
                          ELSE view.arena]
    /\ phase' = IF Halts(res'.tree, res'.arena) THEN "halt" ELSE phase
    /\ nWrites' = nWrites + 1
    /\ UNCHANGED <<begun, nTxns, arenaVars, raceVars>>

\* Read(path) on both stores with the open transaction.
Read(path) ==
    /\ phase = "open"
    /\ Stepped("read", "", path, Null,
               TreeStoreRead(tree, ttxn, path), ArenaRead("A", arena, atxn, path))
    /\ phase' = IF Halts(res'.tree, res'.arena) THEN "halt" ELSE phase
    /\ UNCHANGED <<begun, view, nWrites, nTxns, arenaVars, raceVars>>

\* Commit on both stores.
Commit ==
    /\ phase = "open"
    /\ \E ord \in KeyOrders :
        Stepped("commit", "", <<>>, Null,
                TreeStoreCommit(tree, ttxn, ord), ArenaCommit("A", arena, atxn, ord))
    /\ phase' = IF Halts(res'.tree, res'.arena) THEN "halt" ELSE "idle"
    /\ UNCHANGED <<begun, view, nWrites, nTxns, arenaVars, raceVars>>

\* Abort on both stores.
Abort ==
    /\ phase = "open"
    /\ Stepped("abort", "", <<>>, Null,
               TreeStoreAbort(tree, ttxn), ArenaAbort("A", arena, atxn))
    /\ phase' = IF Halts(res'.tree, res'.arena) THEN "halt" ELSE "idle"
    /\ UNCHANGED <<begun, view, nWrites, nTxns, arenaVars, raceVars>>

\* UpsertPolicy(id, bs) on both stores.
UpsertPolicy(id, bs) ==
    /\ phase = "open"
    /\ nWrites < MaxWrites
    /\ Stepped("upsert", id, <<>>, StrV(bs),
               TreeStoreUpsertPolicy(tree, ttxn, id, bs),
               ArenaUpsertPolicy("A", arena, atxn, id, bs))
    /\ nWrites' = nWrites + 1
    /\ UNCHANGED <<phase, begun, view, nTxns, arenaVars, raceVars>>

\* DeletePolicy(id) on both stores.
DeletePolicy(id) ==
    /\ phase = "open"
    /\ nWrites < MaxWrites
    /\ Stepped("delete", id, <<>>, Null,
               TreeStoreDeletePolicy(tree, ttxn, id),
               ArenaDeletePolicy("A", arena, atxn, id))
    /\ nWrites' = nWrites + 1
    /\ UNCHANGED <<phase, begun, view, nTxns, arenaVars, raceVars>>

\* GetPolicy(id) on both stores.
GetPolicy(id) ==
    /\ phase = "open"
    /\ Stepped("get", id, <<>>, Null,
               TreeStoreGetPolicy(tree, ttxn, id), ArenaGetPolicy("A", arena, atxn, id))
    /\ UNCHANGED <<phase, begun, view, nWrites, nTxns, arenaVars, raceVars>>

\* ListPolicies on both stores.
ListPolicies ==
    /\ phase = "open"
    /\ \E ord \in KeyOrders :
        Stepped("list", "", <<>>, Null,
                TreeStoreListPolicies(tree, ttxn, ord),
                ArenaListPolicies("A", arena, atxn, ord))
    /\ UNCHANGED <<phase, begun, view, nWrites, nTxns, arenaVars, raceVars>>

\* Register of a new trigger on both stores.
Register ==
    /\ phase = "open"
    /\ Cardinality(arena.triggers) < MaxTriggers
    /\ Stepped("register", "", <<>>, Null,
               TreeStoreRegister(tree, ttxn, Cardinality(arena.triggers) + 1),
               ArenaRegister("A", arena, atxn, Cardinality(arena.triggers) + 1))
    /\ UNCHANGED <<phase, begun, view, nWrites, nTxns, arenaVars, raceVars>>

Next ==
    \/ \E write \in BOOLEAN : Begin(write)
    \/ \E op \in WriteOps, path \in WritePaths, value \in WriteValues :
            Write(op, path, value)
    \/ \E path \in WritePaths : Write("remove", path, Null)
    \/ \E path \in ReadPaths : Read(path)
    \/ Commit
    \/ Abort
    \/ \E id \in PolicyIds, bs \in PolicyBytes : UpsertPolicy(id, bs)
    \/ \E id \in PolicyIds : DeletePolicy(id)
    \/ \E id \in PolicyIds : GetPolicy(id)
    \/ ListPolicies
    \/ Register

Spec == Init /\ [][Next]_vars

-----------------------------------------------------------------------------
(* Callers sharing one arena store.                                        *)
(* SpecArena: transactions are begun on the arena store "A" and every      *)
(* store call is made with every handle, live or not, and with handles of  *)
(* another store.  A call that panics ends the program.                    *)

ArenaPaths == {<<>>, <<"a">>}
ArenaValues == {ValX, ObjV("b" :> ValX)}

Running == last.arena.err \notin {"Panic", "Hang"}
PreOf(i) ==
    IF handles[i].arena # "A" THEN "foreign"
    ELSE IF i \in ended THEN "ended" ELSE "live"

\* NewTransaction(write) on the store; a write transaction waits for wmu.
ABegin(write) ==
    /\ Running
    /\ Len(handles) < MaxHandles
    /\ write => ~store.wmu
    /\ store' = ArenaNewTransaction("A", store, write).a
    /\ handles' = Append(handles, ArenaNewTransaction("A", store, write).txn)
    /\ last' = ArenaCall("begin", Len(handles) + 1, "live", <<>>,
                         ArenaNewTransaction("A", store, write).res)
    /\ acquirer' = IF write THEN Len(handles) + 1 ELSE acquirer
    /\ snap' = IF write THEN Snapshot(store) ELSE snap
    /\ UNCHANGED <<ended, nCalls, sessionVars, raceVars>>

\* A transaction begun on another store comes into the callers' hands.
AForeign(write) ==
    /\ Running
    /\ Len(handles) < MaxHandles
    /\ handles' = Append(handles, ArenaNewTransaction("B", NewArena, write).txn)
    /\ last' = ArenaCall("foreign", Len(handles) + 1, "foreign", <<>>, Ok(Null))
    /\ UNCHANGED <<store, acquirer, ended, snap, nCalls, sessionVars, raceVars>>

\* The store and the handle after a call made with handle i.
Called(i, c, path, r) ==
    /\ store' = r.a
    /\ handles' = [handles EXCEPT ![i] = r.txn]
    /\ last' = ArenaCall(c, i, PreOf(i), path, r.res)

ARead(i, path) ==
    /\ Running
    /\ Called(i, "read", path, ArenaRead("A", store, handles[i], path))
    /\ UNCHANGED <<acquirer, ended, snap, nCalls, sessionVars, raceVars>>

AWrite(i, op, path, value) ==
    /\ Running
    /\ nCalls < MaxWrites
    /\ Called(i, "write", path, ArenaWrite("A", store, handles[i], op, path, value))
    /\ nCalls' = nCalls + 1
    /\ UNCHANGED <<acquirer, ended, snap, sessionVars, raceVars>>

ACommit(i) ==
    /\ Running
    /\ \E ord \in KeyOrders :
        Called(i, "commit", <<>>, ArenaCommit("A", store, handles[i], ord))
    /\ ended' = ended \cup {i}
    /\ UNCHANGED <<acquirer, snap, nCalls, sessionVars, raceVars>>

AAbort(i) ==
    /\ Running
    /\ Called(i, "abort", <<>>, ArenaAbort("A", store, handles[i]))
    /\ ended' = ended \cup {i}
    /\ UNCHANGED <<acquirer, snap, nCalls, sessionVars, raceVars>>

AUpsertPolicy(i, id, bs) ==
    /\ Running
    /\ nCalls < MaxWrites
    /\ Called(i, "upsert", <<>>, ArenaUpsertPolicy("A", store, handles[i], id, bs))
    /\ nCalls' = nCalls + 1
    /\ UNCHANGED <<acquirer, ended, snap, sessionVars, raceVars>>

ADeletePolicy(i, id) ==
    /\ Running
    /\ nCalls < MaxWrites
    /\ Called(i, "delete", <<>>, ArenaDeletePolicy("A", store, handles[i], id))
    /\ nCalls' = nCalls + 1
    /\ UNCHANGED <<acquirer, ended, snap, sessionVars, raceVars>>

AGetPolicy(i, id) ==
    /\ Running
    /\ Called(i, "get", <<>>, ArenaGetPolicy("A", store, handles[i], id))
    /\ UNCHANGED <<acquirer, ended, snap, nCalls, sessionVars, raceVars>>

AListPolicies(i) ==
    /\ Running
    /\ \E ord \in KeyOrders :
        Called(i, "list", <<>>, ArenaListPolicies("A", store, handles[i], ord))
    /\ UNCHANGED <<acquirer, ended, snap, nCalls, sessionVars, raceVars>>

ARegister(i) ==
    /\ Running
    /\ Cardinality(store.triggers) < MaxTriggers
    /\ Called(i, "register", <<>>,
              ArenaRegister("A", store, handles[i], Cardinality(store.triggers) + 1))
    /\ UNCHANGED <<acquirer, ended, snap, nCalls, sessionVars, raceVars>>

NextArena ==
    \/ \E write \in BOOLEAN : ABegin(write)
    \/ \E write \in BOOLEAN : AForeign(write)
    \/ \E i \in DOMAIN handles, path \in ArenaPaths : ARead(i, path)
    \/ \E i \in DOMAIN handles, path \in ArenaPaths, value \in ArenaValues :
            AWrite(i, "add", path, value)
    \/ \E i \in DOMAIN handles, path \in ArenaPaths : AWrite(i, "remove", path, Null)
    \/ \E i \in DOMAIN handles : ACommit(i)
    \/ \E i \in DOMAIN handles : AAbort(i)
    \/ \E i \in DOMAIN handles, id \in PolicyIds, bs \in PolicyBytes :
            AUpsertPolicy(i, id, bs)
    \/ \E i \in DOMAIN handles, id \in PolicyIds : ADeletePolicy(i, id)
    \/ \E i \in DOMAIN handles, id \in PolicyIds : AGetPolicy(i, id)
    \/ \E i \in DOMAIN handles : AListPolicies(i)
    \/ \E i \in DOMAIN handles : ARegister(i)

SpecArena == Init /\ [][NextArena]_vars

-----------------------------------------------------------------------------
(* One write transaction on stores that hold a document.                   *)
(* SpecTxn: both stores hold the same committed document, put there by an  *)
(* earlier transaction that wrote it at the root and committed; a write    *)
(* transaction is open on both, either new or (on WideDoc) after           *)
(* pathIndexThreshold writes of distinct keys, so that the next Write of   *)
(* the tree engine builds the path index.  The session writes, reads and   *)
(* commits; the counters count from the state seeded.                      *)

Docs ==
    {EmptyObj, ObjV("a" :> ValX), ObjV("a" :> ObjV("b" :> ValX)),
     ObjV("a" :> ArrV(<<ValX, ValY>>))}

\* The document under the transaction seeded with pathIndexThreshold writes.
WideDoc == ObjV("a" :> ArrV(<<ValX, ValY>>))

SeedKeys ==
    <<"k01", "k02", "k03", "k04", "k05", "k06", "k07", "k08",
      "k09", "k10", "k11", "k12", "k13", "k14", "k15", "k16">>

\* The order of the map visits of the seeding commit.
SeedOrder == <<"a", "b", "c", "p", "q">>

\* Commit of the transaction of call result c, and a new write transaction
\* on the store the commit leaves.
treeReopened(c) == TreeNewTransaction(TreeStoreCommit(c.a, c.txn, SeedOrder).a, TRUE)
arenaReopened(c) == ArenaNewTransaction("A", ArenaCommit("A", c.a, c.txn, SeedOrder).a, TRUE)

\* Write(Add, /, d) in the first transaction of call result c.
treeRooted(c, d) == treeReopened(TreeStoreWrite(c.a, c.txn, "add", RootPath, d))
arenaRooted(c, d) == arenaReopened(ArenaWrite("A", c.a, c.txn, "add", RootPath, d))

\* Write(Add, /k, "x") for the keys k of SeedKeys from the i-th on.
\* Each call result is computed once, as the element w of a one-element set.
The(S) == CHOOSE x \in S : TRUE
RECURSIVE treeSeeded(_, _)
treeSeeded(c, i) ==
    IF i > Len(SeedKeys) THEN c
    ELSE The({treeSeeded(w, i + 1) :
                w \in {TreeStoreWrite(c.a, c.txn, "add", <<SeedKeys[i]>>, ValX)}})
RECURSIVE arenaSeeded(_, _)
arenaSeeded(c, i) ==
    IF i > Len(SeedKeys) THEN c
    ELSE The({arenaSeeded(w, i + 1) :
                w \in {ArenaWrite("A", c.a, c.txn, "add", <<SeedKeys[i]>>, ValX)}})

\* The document d with the seeded keys added.
WithSeedKeys(d) ==
    ObjV([k \in DOMAIN d.v \cup {SeedKeys[i] : i \in 1..Len(SeedKeys)} |->
            IF k \in DOMAIN d.v THEN d.v[k] ELSE ValX])

\* The session's variables on the stores t and a seeded with document d.
SeededWith(t, a, d, wide) ==
    /\ tree = t.a
    /\ ttxn = t.txn
    /\ arena = a.a
    /\ atxn = a.txn
    /\ begun = [tree |-> d, arena |-> d,
                nWrites |-> IF wide THEN 0 - Len(SeedKeys) ELSE 0]
    /\ view = IF wide THEN [tree |-> WithSeedKeys(d), arena |-> WithSeedKeys(d)]
              ELSE [tree |-> d, arena |-> d]

InitTxn ==
    /\ \E d \in Docs, wide \in BOOLEAN :
          /\ wide => d = WideDoc
          /\ SeededWith(treeSeeded(treeRooted(TreeNewTransaction(NewTree, TRUE), d),
                                   IF wide THEN 1 ELSE Len(SeedKeys) + 1),
                        arenaSeeded(arenaRooted(ArenaNewTransaction("A", NewArena, TRUE), d),
                                    IF wide THEN 1 ELSE Len(SeedKeys) + 1),
                        d, wide)
    /\ phase = "open"
    /\ res = NoCall
    /\ nWrites = 0
    /\ nTxns = MaxTxns
    /\ store = NewArena
    /\ handles = <<>>
    /\ last = NoArenaCall
    /\ acquirer = 0
    /\ ended = {}
    /\ snap = Snapshot(NewArena)
    /\ nCalls = 0
    /\ committing = NoCommit
    /\ trig = NoTriggers
    /\ UnitInit

NextTxn ==
    \/ \E op \in WriteOps, path \in WritePaths, value \in WriteValues :
            Write(op, path, value)
    \/ \E path \in WritePaths : Write("remove", path, Null)
    \/ \E path \in ReadPaths : Read(path)
    \/ Commit

SpecTxn == InitTxn /\ [][NextTxn]_vars

-----------------------------------------------------------------------------
(* A commit on the arena store with other transactions reading.            *)
(* SpecRace: the arena store holds the document RaceDoc, committed by an   *)
(* earlier transaction, and a write transaction is open on it.  Each       *)
(* caller is a goroutine of its own.  Arena.Commit holds rmu from          *)
(* arena.go 285 to 287, around the transaction's Commit, and is a step     *)
(* for taking the lock, a step for each update of the data loop, a step    *)
(* for the policy loop and the release of rmu, a step for the triggers     *)
(* and a step for the rest; NewTransaction takes rmu to sample the root    *)
(* index; Arena.Read takes no lock and steps at any time.  Triggers are    *)
(* registered and unregistered between the commits.                        *)

RaceDoc == ObjV("a" :> ValX)
RacePaths == {<<"a">>, <<"c">>}
RaceValues == {ValY}

\* The store and the open write transaction as the earlier commit left them.
RaceSeeded(c) ==
    /\ store = c.a
    /\ handles = <<c.txn>>
    /\ snap = Snapshot(c.a)

InitRace ==
    /\ RaceSeeded(arenaRooted(ArenaNewTransaction("A", NewArena, TRUE), RaceDoc))
    /\ last = NoArenaCall
    /\ acquirer = 1
    /\ ended = {}
    /\ nCalls = 0
    /\ committing = NoCommit
    /\ trig = NoTriggers
    /\ UnitInit
    /\ tree = NewTree
    /\ ttxn = [TreeTxn(FALSE) EXCEPT !.stale = TRUE]
    /\ arena = NewArena
    /\ atxn = [ArenaTxn("A", -1, FALSE) EXCEPT !.stale = TRUE]
    /\ phase = "idle"
    /\ res = NoCall
    /\ begun = [tree |-> EmptyObj, arena |-> EmptyObj, nWrites |-> 0]
    /\ view = [tree |-> EmptyObj, arena |-> EmptyObj]
    /\ nWrites = 0
    /\ nTxns = 0

LiveHandle(i) == PreOf(i) = "live" /\ ~handles[i].stale

\* NewTransaction: rmu.RLock waits while a Commit holds rmu.
RaceBegin(write) ==
    /\ committing.stage # "data"
    /\ ABegin(write)

\* Read with a live transaction, at any time.
RaceRead(i, path) ==
    /\ LiveHandle(i)
    /\ ARead(i, path)

\* Write with the live write transaction, before its Commit.
RaceWrite(i, op, path, value) ==
    /\ LiveHandle(i)
    /\ handles[i].write
    /\ committing.h = 0
    /\ AWrite(i, op, path, value)

\* Arena.Commit up to arena.go 285: underlying accepts the write
\* transaction and rmu is taken.
CommitLock(i, ord) ==
    /\ Running
    /\ committing.h = 0
    /\ LiveHandle(i)
    /\ handles[i].write
    /\ committing' = [h |-> i, stage |-> "data", next |-> 1, ord |-> ord,
                      event |-> NoEvent, before |-> store,
                      after |-> ArenaCommit("A", store, handles[i], ord).a]
    /\ trig' = [trig EXCEPT !.invoked = <<>>]
    /\ last' = ArenaCall("lock", i, "live", <<>>, Ok(Null))
    /\ UNCHANGED <<store, handles, acquirer, ended, snap, nCalls, sessionVars, unitVars>>

\* One turn of the data loop of transaction.Commit (part_011 251-269), r
\* the outcome of applyUpdate on the update upd.
Applied(r, upd) ==
    /\ store' = r.a
    /\ committing' =
          [committing EXCEPT
              !.next = @ + 1,
              !.event = IF r.err = "OK" /\ r.a.triggers # {}
                        THEN [@ EXCEPT !.data = Append(@, DataEvent(upd))]
                        ELSE @]
    /\ last' = ArenaCall("apply", committing.h, "live", upd.path,
                         IF r.err \in {"Panic", "Hang"} THEN Err(r.err) ELSE Ok(Null))

CommitApply ==
    /\ Running
    /\ committing.stage = "data"
    /\ committing.next <= Len(handles[committing.h].updates)
    /\ Applied(applyUpdate(store, handles[committing.h].updates[committing.next],
                           committing.ord),
               handles[committing.h].updates[committing.next])
    /\ UNCHANGED <<handles, acquirer, ended, snap, nCalls, trig, sessionVars, unitVars>>

\* The policy loop of transaction.Commit (part_011 273-294) and rmu.Unlock
\* (arena.go 287); p is the outcome of the loop.
PoliciesApplied(p) ==
    /\ store' = p.a
    /\ committing' = [committing EXCEPT !.stage = "applied", !.event = p.event]
    /\ last' = ArenaCall("policies", committing.h, "live", <<>>, Ok(Null))

CommitPolicies ==
    /\ Running
    /\ committing.stage = "data"
    /\ committing.next > Len(handles[committing.h].updates)
    /\ PoliciesApplied(commitPolicies(store, handles[committing.h].policies, 1,
                                      committing.event))
    /\ UNCHANGED <<handles, acquirer, ended, snap, nCalls, trig, sessionVars, unitVars>>

\* The handles of the set S, each once, lowest first.
RECURSIVE InOrder(_)
InOrder(S) ==
    IF S = {} THEN <<>>
    ELSE LET m == CHOOSE x \in S : \A y \in S : x <= y
         IN  <<m>> \o InOrder(S \ {m})

\* Arena.runOnCommitTriggers called by Commit (arena.go 288): the loop
\* visits every entry of the trigger map once.
CommitTriggers ==
    /\ Running
    /\ committing.stage = "applied"
    /\ store' = runOnCommitTriggers(store, committing.event)
    /\ trig' = [trig EXCEPT !.invoked = InOrder(store.triggers)]
    /\ committing' = [committing EXCEPT !.stage = "triggered"]
    /\ last' = ArenaCall("triggers", committing.h, "live", <<>>, Ok(Null))
    /\ UNCHANGED <<handles, acquirer, ended, snap, nCalls, sessionVars, unitVars>>

\* The end of Commit (arena.go 289-297): the transaction is made stale,
\* wmu released and the commit counted.
CommitUnlock ==
    /\ Running
    /\ committing.stage = "triggered"
    /\ store' = unlockAndCount(store)
    /\ handles' = [handles EXCEPT ![committing.h].stale = TRUE]
    /\ last' = ArenaCall("commit", committing.h, "live", <<>>, Ok(Null))
    /\ ended' = ended \cup {committing.h}
    /\ committing' = NoCommit
    /\ UNCHANGED <<acquirer, snap, nCalls, trig, sessionVars, unitVars>>

\* UpsertPolicy with the live write transaction, before its Commit.
RaceUpsert(i, id, bs) ==
    /\ LiveHandle(i)
    /\ handles[i].write
    /\ committing.h = 0
    /\ AUpsertPolicy(i, id, bs)

\* Register with a live transaction: the handle made is the next one.
RaceRegister(i) ==
    /\ Running
    /\ LiveHandle(i)
    /\ committing.h = 0
    /\ trig.regs < MaxRegs
    /\ Called(i, "register", <<>>,
              ArenaRegister("A", store, handles[i], trig.regs + 1))
    /\ trig' = IF handles[i].write THEN [trig EXCEPT !.regs = @ + 1] ELSE trig
    /\ UNCHANGED <<acquirer, ended, snap, nCalls, committing, sessionVars, unitVars>>

\* Unregister of a handle Register returned, with a live transaction.
RaceUnregister(i, hd) ==
    /\ Running
    /\ LiveHandle(i)
    /\ committing.h = 0
    /\ hd \in 1..trig.regs
    /\ Called(i, "unregister", <<>>,
              ArenaUnregister("A", store, handles[i], hd))
    /\ trig' = IF handles[i].write THEN [trig EXCEPT !.gone = @ \cup {hd}] ELSE trig
    /\ UNCHANGED <<acquirer, ended, snap, nCalls, committing, sessionVars, unitVars>>

NextRace ==
    \/ \E write \in BOOLEAN : RaceBegin(write)
    \/ \E i \in DOMAIN handles, path \in RacePaths \cup {RootPath} : RaceRead(i, path)
    \/ \E i \in DOMAIN handles, path \in RacePaths, value \in RaceValues :
            RaceWrite(i, "add", path, value)
    \/ \E i \in DOMAIN handles, path \in RacePaths : RaceWrite(i, "remove", path, Null)
    \/ \E i \in DOMAIN handles, ord \in KeyOrders : CommitLock(i, ord)
    \/ CommitApply
    \/ CommitPolicies
    \/ CommitTriggers
    \/ CommitUnlock
    \/ \E i \in DOMAIN handles, id \in PolicyIds, bs \in PolicyBytes :
            RaceUpsert(i, id, bs)
    \/ \E i \in DOMAIN handles : RaceRegister(i)
    \/ \E i \in DOMAIN handles, hd \in 1..MaxRegs : RaceUnregister(i, hd)

SpecRace == InitRace /\ [][NextRace]_vars

-----------------------------------------------------------------------------
(* Policies on both stores.                                                *)
(* SpecPolicy: both stores hold the same committed policies, none or the   *)
(* ids of SeedIds with the bytes "m1", put there by an earlier transaction *)
(* that upserted them and committed.  The session begins transactions and  *)
(* upserts, deletes, gets and lists policies in them on both stores.       *)

SessionIds == {"p", "q"}
SessionBytes == {"m1", "m2"}
SeedIds == <<"p", "q">>

\* UpsertPolicy(id, "m1") for the first n ids of SeedIds in the transaction
\* of call result c.
RECURSIVE treeUpserted(_, _)
treeUpserted(c, n) ==
    IF n = 0 THEN c
    ELSE TreeStoreUpsertPolicy(treeUpserted(c, n - 1).a, treeUpserted(c, n - 1).txn,
                               SeedIds[n], "m1")
RECURSIVE arenaUpserted(_, _)
arenaUpserted(c, n) ==
    IF n = 0 THEN c
    ELSE ArenaUpsertPolicy("A", arenaUpserted(c, n - 1).a, arenaUpserted(c, n - 1).txn,
                           SeedIds[n], "m1")

\* The stores after the Commit of the transactions of call results t and a.
PoliciesSeeded(t, a) ==
    /\ tree = TreeStoreCommit(t.a, t.txn, SeedOrder).a
    /\ arena = ArenaCommit("A", a.a, a.txn, SeedOrder).a

InitPolicy ==
    /\ \E n \in {0, Len(SeedIds)} :
          PoliciesSeeded(treeUpserted(TreeNewTransaction(NewTree, TRUE), n),
                         arenaUpserted(ArenaNewTransaction("A", NewArena, TRUE), n))
    /\ ttxn = [TreeTxn(FALSE) EXCEPT !.stale = TRUE]
    /\ atxn = [ArenaTxn("A", -1, FALSE) EXCEPT !.stale = TRUE]
    /\ phase = "idle"
    /\ res = NoCall
    /\ begun = [tree |-> EmptyObj, arena |-> EmptyObj, nWrites |-> 0]
    /\ view = [tree |-> EmptyObj, arena |-> EmptyObj]
    /\ nWrites = 0
    /\ nTxns = 0
    /\ store = NewArena
    /\ handles = <<>>
    /\ last = NoArenaCall
    /\ acquirer = 0
    /\ ended = {}
    /\ snap = Snapshot(NewArena)
    /\ nCalls = 0
    /\ committing = NoCommit
    /\ trig = NoTriggers
    /\ UnitInit

NextPolicy ==
    \/ \E write \in BOOLEAN : Begin(write)
    \/ \E id \in SessionIds, bs \in SessionBytes : UpsertPolicy(id, bs)
    \/ \E id \in SessionIds : DeletePolicy(id)
    \/ \E id \in SessionIds : GetPolicy(id)
    \/ ListPolicies
    \/ Commit
    \/ Abort

SpecPolicy == InitPolicy /\ [][NextPolicy]_vars

-----------------------------------------------------------------------------
(* The PolicyStore alone.                                                  *)
(* SpecStore: one caller upserts, deletes, gets and lists policies on a    *)
(* PolicyStore as NewPolicyStore leaves it and asks for its length.        *)
(* psLive is the map the calls made so far stand for.  A call that never   *)
(* returns ends the program.                                               *)

StoreIds == {"p", "q"}
StoreBytes == {"m1", "m2"}

StoreRunning == psRes.res.err # "Hang"
notStoreVars == <<mainVars, pathVars, internVars, sweepVars, indexVars, allocVars, lockVars, loadVars>>

StoreUpsert(id, data) ==
    /\ StoreRunning
    /\ psCalls < MaxStoreCalls
    /\ ps' = PsUpsert(ps, id, data).ps
    /\ psRes' = StoreCall("upsert", id, data, PsUpsert(ps, id, data).res)
    /\ psLive' = IF PsUpsert(ps, id, data).res.err = "OK" THEN MapPut(psLive, id, data)
                 ELSE psLive
    /\ psCalls' = psCalls + 1
    /\ UNCHANGED notStoreVars

StoreDelete(id) ==
    /\ StoreRunning
    /\ psCalls < MaxStoreCalls
    /\ ps' = PsDelete(ps, id).ps
    /\ psRes' = StoreCall("delete", id, NoBytes, PsDelete(ps, id).res)
    /\ psLive' = IF PsDelete(ps, id).res.err = "Hang" THEN psLive ELSE MapDel(psLive, id)
    /\ psCalls' = psCalls + 1
    /\ UNCHANGED notStoreVars

StoreGet(id) ==
    /\ StoreRunning
    /\ ps' = PsGet(ps, id).ps
    /\ psRes' = StoreCall("get", id, NoBytes, PsGet(ps, id).res)
    /\ UNCHANGED <<psLive, psCalls, notStoreVars>>

StoreList ==
    /\ StoreRunning
    /\ ps' = PsList(ps).ps
    /\ psRes' = StoreCall("list", "", NoBytes, PsList(ps).res)
    /\ UNCHANGED <<psLive, psCalls, notStoreVars>>

StoreLen ==
    /\ StoreRunning
    /\ psRes' = StoreCall("len", "", NoBytes, Ok(PsLen(ps)))
    /\ UNCHANGED <<ps, psLive, psCalls, notStoreVars>>

NextStore ==
    \/ \E id \in StoreIds, data \in StoreBytes : StoreUpsert(id, data)
    \/ \E id \in StoreIds : StoreDelete(id)
    \/ \E id \in StoreIds : StoreGet(id)
    \/ StoreList
    \/ StoreLen

SpecStore == Init /\ [][NextStore]_vars

-----------------------------------------------------------------------------
(* Paths formatted and parsed.                                             *)
(* SpecPath: a path of up to MaxPathLen segments of up to MaxSegLen bytes  *)
(* is formatted by Path.String and the string parsed by ParsePath and by   *)
(* ParsePathEscaped.  The bytes are a letter, a digit, "/", "%" and "F":   *)
(* segments that are empty, need escaping or read like an escape.          *)

SegBytes == {97, 50, 70, Slash, Percent}
Segments == UNION {[1..n -> SegBytes] : n \in 0..MaxSegLen}
Paths == UNION {[1..n -> Segments] : n \in 0..MaxPathLen}

PathFormat(p) ==
    /\ pth.call = "none"
    /\ pth' = [p |-> p, str |-> String(p), call |-> "string", r |-> Parsed(<<>>, FALSE)]
    /\ UNCHANGED <<mainVars, storeVars, internVars, sweepVars, indexVars, allocVars, lockVars, loadVars>>

PathParse ==
    /\ pth.call = "string"
    /\ pth' = [pth EXCEPT !.call = "parse", !.r = ParsePath(pth.str)]
    /\ UNCHANGED <<mainVars, storeVars, internVars, sweepVars, indexVars, allocVars, lockVars, loadVars>>

PathParseEscaped ==
    /\ pth.call = "string"
    /\ pth' = [pth EXCEPT !.call = "escaped", !.r = ParsePathEscaped(pth.str)]
    /\ UNCHANGED <<mainVars, storeVars, internVars, sweepVars, indexVars, allocVars, lockVars, loadVars>>

NextPath ==
    \/ \E p \in Paths : PathFormat(p)
    \/ PathParse
    \/ PathParseEscaped

SpecPath == Init /\ [][NextPath]_vars

-----------------------------------------------------------------------------
(* Segments interned by two threads.                                       *)
(* SpecIntern: each thread calls InternPathSegment with a constructed      *)
(* segment, a number, another short segment or one above 32 bytes, held    *)
(* in an instance of its own or in one both threads hold.                  *)

Data == <<100, 97, 116, 97>>
LongSegment == [i \in 1..(MaxInternedLen + 1) |-> 120]
InternVals == {Data, <<55>>, <<120>>, LongSegment}
InternInsts == {1, 2}
notInternVars == <<mainVars, storeVars, pathVars, sweepVars, indexVars, allocVars, lockVars, loadVars>>

\* A thread's step, with what it returned added to the returns so far.
InternStep(t, tbl, th, calls) ==
    itn' = [tbl |-> tbl,
            th |-> [itn.th EXCEPT ![t] = th],
            rets |-> IF th.pc = "done" THEN itn.rets \cup {th.ret} ELSE itn.rets,
            calls |-> calls]

InternCall(t, s) ==
    /\ itn.th[t].pc \in {"idle", "done"}
    /\ itn.calls < MaxInternCalls
    /\ InternStep(t, itn.tbl, internEnter(s), itn.calls + 1)
    /\ UNCHANGED notInternVars

InternRLock(t) ==
    /\ itn.th[t].pc = "rlock"
    /\ InternStep(t, itn.tbl, internRLocked(itn.tbl, itn.th[t].s), itn.calls)
    /\ UNCHANGED notInternVars

InternLock(t) ==
    /\ itn.th[t].pc = "lock"
    /\ InternStep(t, internLocked(itn.tbl, itn.th[t].s).tbl,
                  internLocked(itn.tbl, itn.th[t].s).th, itn.calls)
    /\ UNCHANGED notInternVars

NextIntern ==
    \/ \E t \in InternThreads, val \in InternVals, inst \in InternInsts :
        InternCall(t, Str(val, inst))
    \/ \E t \in InternThreads : InternRLock(t)
    \/ \E t \in InternThreads : InternLock(t)

SpecIntern == Init /\ [][NextIntern]_vars

-----------------------------------------------------------------------------
(* Commits, tombstones and sweeps.                                         *)
(* SpecSweep: one writer commits up to MaxSweepCommits transactions on an  *)
(* arena that has committed SeedCommits before, so that its second commit  *)
(* is the tenth and runs the sweep of Commit; the goroutine of             *)
(* StartScavenger sweeps node by node beside it, without a lock as in the  *)
(* code.  No method of the store marks a node: MarkTombstone is applied,   *)
(* under the writer lock, to a node that its parent still links to, the    *)
(* lazy removal the node type provides for.                                *)

SweepOps == {"add", "remove"}
SweepPaths == {<<>>, <<"a">>, <<"b">>}
SweepValues == {IntV(1), EmptyObj}
notSweepVars == <<mainVars, storeVars, pathVars, internVars, indexVars, allocVars, lockVars, loadVars>>

\* The nodes of the chain that starts at idx, in order, up to its end or to
\* the first node met a second time, which is then the last element.
RECURSIVE chainFrom(_, _, _)
chainFrom(h, idx, seq) ==
    IF idx = -1 \/ IsNil(h, idx) \/ NoSegment(h, idx) THEN seq
    ELSE IF \E k \in DOMAIN seq : seq[k] = idx THEN Append(seq, idx)
    ELSE chainFrom(h, NodeAt(h, idx).next, Append(seq, idx))

ChainOf(h, idx) == chainFrom(h, idx, <<>>)
FreeList(h) == ChainOf(h, h.freeHead)
ChildChain(h, n) ==
    IF NodeAt(h, n).vType \in {"obj", "arr"} THEN ChainOf(h, AsChildIndex(NodeAt(h, n)))
    ELSE <<>>
Children(h, n) == {ChildChain(h, n)[k] : k \in DOMAIN ChildChain(h, n)}

\* The nodes reached from the nodes of frontier through child chains.
RECURSIVE reach(_, _, _)
reach(h, seen, frontier) ==
    IF frontier = {} THEN seen
    ELSE reach(h, seen \cup frontier,
               UNION {Children(h, n) : n \in frontier} \ (seen \cup frontier))

FromRoot(a) == IF a.rootIdx = -1 THEN {} ELSE reach(a.h, {}, {a.rootIdx})
TombsOf(h) == {i \in 0..(h.nodeCnt - 1) : NodeAt(h, i).vType = "tomb"}

SwBegin ==
    /\ ~sw.open
    /\ ~sw.a.wmu
    /\ sw.commits < MaxSweepCommits
    /\ sw' = [sw EXCEPT !.a = ArenaNewTransaction("A", sw.a, TRUE).a,
                        !.txn = ArenaNewTransaction("A", sw.a, TRUE).txn,
                        !.open = TRUE,
                        !.swept = FALSE]
    /\ UNCHANGED notSweepVars

SwWrite(op, path, value) ==
    /\ sw.open
    /\ Len(sw.txn.updates) < MaxSweepWrites
    /\ sw' = [sw EXCEPT !.a = ArenaWrite("A", sw.a, sw.txn, op, path, value).a,
                        !.txn = ArenaWrite("A", sw.a, sw.txn, op, path, value).txn,
                        !.swept = FALSE]
    /\ UNCHANGED notSweepVars

\* Arena.Commit; the tenth commit sweeps, and pre is what the sweep found.
Sweeps(r) == r.res.err = "OK" /\ r.a.commitCount % ScavengePeriod = 0
SwCommitted(r, tombs) ==
    sw' = [sw EXCEPT !.a = r.a,
                     !.txn = r.txn,
                     !.open = FALSE,
                     !.commits = @ + 1,
                     !.swept = Sweeps(r),
                     !.pre = IF Sweeps(r) THEN tombs ELSE @]

SwCommit(ord) ==
    /\ sw.open
    /\ SwCommitted(ArenaCommit("A", sw.a, sw.txn, ord),
                   TombsOf(ArenaTxnCommit(sw.txn, sw.a, ord).a.h))
    /\ UNCHANGED notSweepVars

\* Node.MarkTombstone on a node linked below the root.
SwMark(idx) ==
    /\ sw.open
    /\ sw.marks < MaxMarks
    /\ idx \in FromRoot(sw.a) \ {sw.a.rootIdx}
    /\ NodeAt(sw.a.h, idx).vType \notin {"free", "tomb"}
    /\ sw' = [sw EXCEPT !.a.h = PutNode(@, idx, MarkTombstone(NodeAt(@, idx))),
                        !.marks = @ + 1,
                        !.swept = FALSE]
    /\ UNCHANGED notSweepVars

\* The ticker of StartScavenger fires: scavenge loads the node count.
SwTick ==
    /\ sw.bg.pc = "idle"
    /\ sw.ticks < MaxTicks
    /\ sw' = [sw EXCEPT !.bg = [pc |-> "scan", i |-> 0, limit |-> sw.a.h.nodeCnt],
                        !.ticks = @ + 1,
                        !.swept = FALSE]
    /\ UNCHANGED notSweepVars

\* scavenge loads the type of node i, or ends at the limit.
SwScan ==
    /\ sw.bg.pc = "scan"
    /\ sw' = [sw EXCEPT !.bg = IF sw.bg.i >= sw.bg.limit THEN SweeperIdle
                               ELSE IF NodeAt(sw.a.h, sw.bg.i).vType = "tomb"
                               THEN [@ EXCEPT !.pc = "free"]
                               ELSE [@ EXCEPT !.i = @ + 1],
                        !.swept = FALSE]
    /\ UNCHANGED notSweepVars

\* scavenge frees the node whose type it loaded as Tombstone.
SwFree ==
    /\ sw.bg.pc = "free"
    /\ sw' = [sw EXCEPT !.a.h = free(@, sw.bg.i),
                        !.bg = [@ EXCEPT !.pc = "scan", !.i = @ + 1],
                        !.others = IF NodeAt(sw.a.h, sw.bg.i).vType # "tomb"
                                   THEN @ \cup {sw.bg.i} ELSE @,
                        !.swept = FALSE]
    /\ UNCHANGED notSweepVars

NextSweep ==
    \/ SwBegin
    \/ \E op \in SweepOps, path \in SweepPaths, value \in SweepValues :
        SwWrite(op, path, value)
    \/ \E ord \in KeyOrders : SwCommit(ord)
    \/ \E idx \in 0..(sw.a.h.nodeCnt - 1) : SwMark(idx)
    \/ SwTick
    \/ SwScan
    \/ SwFree

SpecSweep == Init /\ [][NextSweep]_vars

-----------------------------------------------------------------------------
(* Writes of one transaction of the tree engine.                           *)
(* SpecIndex: a write transaction on a store that holds a document, new or *)
(* after pathIndexThreshold writes of distinct keys and one more, which    *)
(* built the path index; up to MaxIndexWrites further Writes.              *)

IndexDocs == {ObjV("a" :> ObjV("b" :> ValX)), ObjV("a" :> ArrV(<<ValX, ValY>>))}
IndexPaths == {<<>>, <<"a">>, <<"a", "b">>, <<"a", "0">>, <<"c">>, <<"k01">>, <<"k01", "b">>}
IndexValues == {ValX, ObjV("b" :> ValX)}
IndexOps == {"add", "replace"}
notIndexVars == <<mainVars, storeVars, pathVars, internVars, sweepVars, allocVars, lockVars, loadVars>>

\* Write(Add, /k, {}) through transaction.Write for the keys k of SeedKeys
\* from the i-th on, then Write(Add, /c, "x").
RECURSIVE indexSeeded(_, _, _)
indexSeeded(txn, data, i) ==
    IF i > Len(SeedKeys) THEN TreeWrite(txn, data, "add", <<"c">>, ValX).txn
    ELSE The({indexSeeded(w, data, i + 1) :
                w \in {TreeWrite(txn, data, "add", <<SeedKeys[i]>>, EmptyObj).txn}})

IndexSeeds ==
    {IndexRun(TreeTxn(TRUE), d) : d \in IndexDocs}
    \cup {IndexRun(indexSeeded(TreeTxn(TRUE), d, 1), d) : d \in IndexDocs}

InitIndex ==
    /\ tree = NewTree
    /\ ttxn = [TreeTxn(FALSE) EXCEPT !.stale = TRUE]
    /\ arena = NewArena
    /\ atxn = [ArenaTxn("A", -1, FALSE) EXCEPT !.stale = TRUE]
    /\ phase = "idle"
    /\ res = NoCall
    /\ begun = [tree |-> EmptyObj, arena |-> EmptyObj, nWrites |-> 0]
    /\ view = [tree |-> EmptyObj, arena |-> EmptyObj]
    /\ nWrites = 0
    /\ nTxns = 0
    /\ store = NewArena
    /\ handles = <<>>
    /\ last = NoArenaCall
    /\ acquirer = 0
    /\ ended = {}
    /\ snap = Snapshot(NewArena)
    /\ nCalls = 0
    /\ committing = NoCommit
    /\ trig = NoTriggers
    /\ ps = NewPolicyStore
    /\ psLive = [k \in {} |-> NoBytes]
    /\ psRes = NoStoreCall
    /\ psCalls = 0
    /\ pth = NoPath
    /\ itn = NewInterning
    /\ sw = NewSweep
    /\ ix \in IndexSeeds
    /\ al = NoAlloc
    /\ lk = NoLocks
    /\ ld = NoLoad

\* transaction.Write; a Write that panicked ends the run.
IxWritten(r, l, op, path, value) ==
    ix' = [ix EXCEPT !.txn = r.txn,
                     !.call = [op |-> op, path |-> path, value |-> value, err |-> r.err],
                     !.before = ix.txn,
                     !.linear = [err |-> l.err, updates |-> l.txn.updates],
                     !.n = @ + 1]

IxWrite(op, path, value) ==
    /\ ix.n < MaxIndexWrites
    /\ ix.call.err # "Panic"
    /\ IxWritten(TreeWrite(ix.txn, ix.data, op, path, value),
                 TreeWriteLinear(ix.txn, ix.data, op, path, value), op, path, value)
    /\ UNCHANGED notIndexVars

NextIndex ==
    \/ \E op \in IndexOps, path \in IndexPaths, value \in IndexValues :
        IxWrite(op, path, value)
    \/ \E path \in IndexPaths : IxWrite("remove", path, Null)

SpecIndex == InitIndex /\ [][NextIndex]_vars

-----------------------------------------------------------------------------
(* Allocation in the arena.                                                *)
(* SpecAlloc: the writer allocates, fills and frees nodes (alloc step by   *)
(* step, as its atomic operations order it) while the scavenger, which     *)
(* takes no lock, sweeps.                                                  *)

notAllocVars == <<mainVars, storeVars, pathVars, internVars, sweepVars, indexVars, lockVars, loadVars>>

\* A node as a writer leaves it: key, value and next set.
UsedNode == MkNode("k", "", 7, 0, "int")

\* The index due to an alloc that begins now.
Due == IF Len(al.freed) > 0 THEN Last(al.freed) ELSE al.h.nodeCnt

\* alloc returns idx, the node reset.
AlReturned(h, idx, want) ==
    al' = [al EXCEPT !.h = h, !.pc = "idle", !.idx = -1, !.want = -1,
                     !.live = @ \cup {idx},
                     !.freed = IF Len(@) > 0 /\ Last(@) = idx THEN Front(@) ELSE @,
                     !.last = [idx |-> idx, want |-> want,
                               node |-> NodeAt(h, idx), again |-> idx \in al.live],
                     !.allocs = @ + 1]

\* arena.go 172-185: the head of the freelist is taken and reset.
AlPop ==
    /\ ~al.fault /\ al.pc = "idle" /\ al.allocs < MaxAllocs
    /\ al.h.freeHead # -1
    /\ AlReturned(PutNode([al.h EXCEPT !.freeHead = NodeAt(al.h, al.h.freeHead).next],
                          al.h.freeHead, ResetNode),
                  al.h.freeHead, Due)
    /\ UNCHANGED notAllocVars

\* arena.go 187-188: the freelist is empty, the node count is raised.
AlCount ==
    /\ ~al.fault /\ al.pc = "idle" /\ al.allocs < MaxAllocs
    /\ al.h.freeHead = -1
    /\ al' = [al EXCEPT !.h.nodeCnt = @ + 1, !.pc = "counted",
                        !.idx = al.h.nodeCnt, !.want = Due]
    /\ UNCHANGED notAllocVars

\* arena.go 191-198: the segment of the index is created when it is missing.
AlExtend ==
    /\ ~al.fault /\ al.pc = "counted"
    /\ al.idx \div SegmentSize >= al.h.segCount
    /\ al' = [al EXCEPT !.h = extend(al.h), !.pc = "grown"]
    /\ UNCHANGED notAllocVars

\* arena.go 200-202: the node is reset and its index returned.
AlReset ==
    /\ ~al.fault
    /\ \/ al.pc = "grown"
       \/ al.pc = "counted" /\ al.idx \div SegmentSize < al.h.segCount
    /\ AlReturned(PutNode(al.h, al.idx, ResetNode), al.idx, al.want)
    /\ UNCHANGED notAllocVars

\* The writer fills a node it holds.
AlUse(i) ==
    /\ ~al.fault /\ al.pc = "idle"
    /\ i \in al.live /\ NodeAt(al.h, i) # UsedNode
    /\ al' = [al EXCEPT !.h = PutNode(al.h, i, UsedNode)]
    /\ UNCHANGED notAllocVars

\* Arena.free of a node the writer holds.
AlFree(i) ==
    /\ ~al.fault /\ al.pc = "idle"
    /\ i \in al.live
    /\ al' = [al EXCEPT !.h = free(al.h, i), !.live = @ \ {i},
                        !.freed = Append(@, i)]
    /\ UNCHANGED notAllocVars

\* Arena.scavenge begins (the ticker of StartScavenger, or Commit after it
\* released the writer lock): the node count is loaded.
AlTick ==
    /\ ~al.fault /\ al.sc.pc = "idle" /\ al.ticks < MaxAllocTicks
    /\ al' = [al EXCEPT !.sc = [pc |-> "scan", limit |-> al.h.nodeCnt, i |-> 0],
                        !.ticks = @ + 1]
    /\ UNCHANGED notAllocVars

\* One round of scavenge's loop: getNode(i), the load of its type and the
\* free of a tombstone.
AlScan ==
    /\ ~al.fault /\ al.sc.pc = "scan"
    /\ al' = IF al.sc.i >= al.sc.limit THEN [al EXCEPT !.sc = SweepIdle]
             ELSE IF NoSegment(al.h, al.sc.i)
                  THEN [al EXCEPT !.fault = TRUE, !.sc = SweepIdle]
             ELSE [al EXCEPT !.h = IF NodeAt(al.h, al.sc.i).vType = "tomb"
                                   THEN free(al.h, al.sc.i) ELSE al.h,
                             !.sc.i = @ + 1]
    /\ UNCHANGED notAllocVars

NextAlloc ==
    \/ AlPop
    \/ AlCount
    \/ AlExtend
    \/ AlReset
    \/ \E i \in 0..(MaxAllocs - 1) : AlUse(i)
    \/ \E i \in 0..(MaxAllocs - 1) : AlFree(i)
    \/ AlTick
    \/ AlScan

SpecAlloc == Init /\ [][NextAlloc]_vars

-----------------------------------------------------------------------------
(* The locks of the arena.                                                 *)
(* SpecLocks: goroutines begin read and write transactions, write, read    *)
(* policies, commit and abort, each call step by step at its lock and      *)
(* unlock operations, while the scavenger sweeps.  SpecLocksFair adds the  *)
(* scheduling: a goroutine that can run does, a goroutine waiting for a    *)
(* lock that is free again and again gets it (sync.Mutex hands the lock to *)
(* a starving waiter), and the owner of a write transaction ends it.       *)

notLockVars ==
    <<mainVars, storeVars, pathVars, internVars, sweepVars, indexVars, allocVars,
      loadVars>>

\* sync.RWMutex
CanRLock(m) == m.writer = 0 /\ m.waiting = 0
RLock(m, t) == [m EXCEPT !.readers = @ \cup {t}]
RUnlock(m, t) == [m EXCEPT !.readers = @ \ {t}]
Announce(m, t) == [m EXCEPT !.waiting = t]
CanLock(m, t) == m.waiting = t /\ m.readers = {}
Lock(m, t) == [m EXCEPT !.writer = t, !.waiting = 0]
Unlock(m) == [m EXCEPT !.writer = 0]

At(t, place) == lk.pc[t] = place
Goto(l, t, place) == [l EXCEPT !.pc[t] = place]

\* arena.go 289-290: Commit makes the transaction stale and releases wmu.
commitUnlockKeeping(l) == l
commitUnlock(l) == [l EXCEPT !.wmu = 0]

\* NewTransaction is called.
LkBegin(t, write) ==
    /\ At(t, "idle")
    /\ lk' = [Goto(lk, t, IF write THEN "wmu" ELSE "rlock") EXCEPT
                !.kind[t] = IF write THEN "w" ELSE "r",
                !.waited[t] = write /\ lk.wmu # 0]
    /\ UNCHANGED notLockVars

\* arena.go 235: a.wmu.Lock()
LkWmuLock(t) ==
    /\ At(t, "wmu") /\ lk.wmu = 0
    /\ lk' = [Goto(lk, t, "rlock") EXCEPT !.wmu = t]
    /\ UNCHANGED notLockVars

\* arena.go 239: a.rmu.RLock()
LkRLock(t) ==
    /\ At(t, "rlock") /\ CanRLock(lk.rmu)
    /\ lk' = [Goto(lk, t, "snapshot") EXCEPT !.rmu = RLock(@, t)]
    /\ UNCHANGED notLockVars

\* arena.go 240-251: the root index is read, rmu released, the transaction
\* returned.
LkRUnlock(t) ==
    /\ At(t, "snapshot")
    /\ lk' = [Goto(lk, t, "open") EXCEPT !.rmu = RUnlock(@, t)]
    /\ UNCHANGED notLockVars

\* Arena.Write: ensureRoot allocates, and alloc takes mu when the segment
\* is missing (arena.go 192).
LkMuLock(t) ==
    /\ At(t, "open") /\ lk.mu = 0
    /\ lk' = [Goto(lk, t, "extend") EXCEPT !.mu = t]
    /\ UNCHANGED notLockVars

\* arena.go 194-197: the segment is created and mu released.
LkMuUnlock(t) ==
    /\ At(t, "extend")
    /\ lk' = [Goto(lk, t, "open") EXCEPT !.mu = 0]
    /\ UNCHANGED notLockVars

\* GetPolicy or ListPolicies: policiesMu.RLock (part_011 326, 373).
LkPolicyRLock(t) ==
    /\ At(t, "open") /\ CanRLock(lk.policiesMu)
    /\ lk' = [Goto(lk, t, "policies") EXCEPT !.policiesMu = RLock(@, t)]
    /\ UNCHANGED notLockVars

\* part_011 332, 375: policiesMu.RUnlock
LkPolicyRUnlock(t) ==
    /\ At(t, "policies")
    /\ lk' = [Goto(lk, t, "open") EXCEPT !.policiesMu = RUnlock(@, t)]
    /\ UNCHANGED notLockVars

\* Commit or Abort of a read transaction: no lock is touched.
LkEndRead(t) ==
    /\ At(t, "open") /\ lk.kind[t] = "r"
    /\ lk' = Goto(lk, t, "idle")
    /\ UNCHANGED notLockVars

\* Arena.Abort of the write transaction (arena.go 310-314).
LkAbort(t) ==
    /\ At(t, "open") /\ lk.kind[t] = "w"
    /\ lk' = [Goto(lk, t, "idle") EXCEPT !.wmu = 0]
    /\ UNCHANGED notLockVars

\* Arena.Commit of the write transaction is called; a.rmu.Lock() (arena.go
\* 285) announces the writer.
LkCommit(t) ==
    /\ At(t, "open") /\ lk.kind[t] = "w"
    /\ CanRLock(lk.rmu)
    /\ lk' = [Goto(lk, t, "rmu") EXCEPT !.rmu = Announce(@, t)]
    /\ UNCHANGED notLockVars

\* a.rmu.Lock() returns when the readers have left.
LkRmuLock(t) ==
    /\ At(t, "rmu") /\ CanLock(lk.rmu, t)
    /\ lk' = [Goto(lk, t, "data") EXCEPT !.rmu = Lock(@, t)]
    /\ UNCHANGED notLockVars

\* transaction.Commit applies the data updates (part_011 251-269); an
\* allocation may take mu.
LkApplyLock(t) ==
    /\ At(t, "data") /\ lk.mu = 0
    /\ lk' = [Goto(lk, t, "grow") EXCEPT !.mu = t]
    /\ UNCHANGED notLockVars

\* arena.go 194-197 inside the Commit: the updates that remain are applied.
LkApplyUnlock(t) ==
    /\ At(t, "grow")
    /\ lk' = [Goto(lk, t, "loaded") EXCEPT !.mu = 0]
    /\ UNCHANGED notLockVars

\* part_011 274: policiesMu.Lock() announces the writer.
LkPolicies(t) ==
    /\ (At(t, "data") \/ At(t, "loaded")) /\ CanRLock(lk.policiesMu)
    /\ lk' = [Goto(lk, t, "pmu") EXCEPT !.policiesMu = Announce(@, t)]
    /\ UNCHANGED notLockVars

LkPoliciesLock(t) ==
    /\ At(t, "pmu") /\ CanLock(lk.policiesMu, t)
    /\ lk' = [Goto(lk, t, "applied") EXCEPT !.policiesMu = Lock(@, t)]
    /\ UNCHANGED notLockVars

\* part_011 293 and arena.go 287: policiesMu and rmu are released.
LkRmuUnlock(t) ==
    /\ At(t, "applied")
    /\ lk' = [Goto(lk, t, "triggers") EXCEPT
                !.policiesMu = Unlock(@), !.rmu = Unlock(@)]
    /\ UNCHANGED notLockVars

\* arena.go 288-290: the triggers run and wmu is released.
LkCommitUnlock(t) ==
    /\ At(t, "triggers")
    /\ lk' = commitUnlock(Goto(lk, t, "count"))
    /\ UNCHANGED notLockVars

\* arena.go 294-297: the commit is counted, every tenth sweeps; Commit
\* returns.
LkCommitReturn(t) ==
    /\ At(t, "count")
    /\ lk' = Goto(lk, t, "idle")
    /\ UNCHANGED notLockVars

\* The ticker of StartScavenger fires and scavenge runs; it takes no lock.
LkTick ==
    /\ lk.bg = "idle"
    /\ lk' = [lk EXCEPT !.bg = "scan"]
    /\ UNCHANGED notLockVars

LkSwept ==
    /\ lk.bg = "scan"
    /\ lk' = [lk EXCEPT !.bg = "idle"]
    /\ UNCHANGED notLockVars

\* The steps of goroutine t that wait for a lock.
LkAcquire(t) ==
    \/ LkWmuLock(t)
    \/ LkRLock(t)
    \/ LkRmuLock(t)
    \/ LkPoliciesLock(t)

\* The steps of goroutine t inside a call that wait for nothing, or for a
\* lock that is held only for a bounded section.
LkRun(t) ==
    \/ LkRUnlock(t)
    \/ LkMuUnlock(t)
    \/ LkPolicyRUnlock(t)
    \/ LkApplyUnlock(t)
    \/ LkPolicies(t)
    \/ LkRmuUnlock(t)
    \/ LkCommitUnlock(t)
    \/ LkCommitReturn(t)

\* The owner of a write transaction ends it.
LkEnd(t) == LkCommit(t) \/ LkAbort(t)

NextLocks ==
    \/ \E t \in LockThreads, write \in BOOLEAN : LkBegin(t, write)
    \/ \E t \in LockThreads : LkWmuLock(t)
    \/ \E t \in LockThreads : LkRLock(t)
    \/ \E t \in LockThreads : LkRUnlock(t)
    \/ \E t \in LockThreads : LkMuLock(t)
    \/ \E t \in LockThreads : LkMuUnlock(t)
    \/ \E t \in LockThreads : LkPolicyRLock(t)
    \/ \E t \in LockThreads : LkPolicyRUnlock(t)
    \/ \E t \in LockThreads : LkEndRead(t)
    \/ \E t \in LockThreads : LkAbort(t)
    \/ \E t \in LockThreads : LkCommit(t)
    \/ \E t \in LockThreads : LkRmuLock(t)
    \/ \E t \in LockThreads : LkApplyLock(t)
    \/ \E t \in LockThreads : LkApplyUnlock(t)
    \/ \E t \in LockThreads : LkPolicies(t)
    \/ \E t \in LockThreads : LkPoliciesLock(t)
    \/ \E t \in LockThreads : LkRmuUnlock(t)
    \/ \E t \in LockThreads : LkCommitUnlock(t)
    \/ \E t \in LockThreads : LkCommitReturn(t)
    \/ LkTick
    \/ LkSwept

SpecLocks == Init /\ [][NextLocks]_vars

LocksFair ==
    \A t \in LockThreads :
        /\ WF_vars(LkRun(t))
        /\ SF_vars(LkAcquire(t))
        /\ SF_vars(LkEnd(t))

SpecLocksFair == SpecLocks /\ LocksFair

-----------------------------------------------------------------------------
(* Loading and materializing (arena.go 477-569, node.go 183-240): nested   *)
(* values are loaded into the arena with LoadMap and LoadSlice and read    *)
(* back with ToInterface.  The arena is new at first; a loaded value may   *)
(* be freed with freeNodeRecursive, so that the next load takes its nodes  *)
(* from the freelist, and loaded over again.                               *)

notLoadVars ==
    <<mainVars, storeVars, pathVars, internVars, sweepVars, indexVars, allocVars,
      lockVars>>

MaxLoads == 2
LoadKeys == {"a", "b"}
LoadScalars == {Null, BoolV(TRUE), IntV(-1), StrV("x")}
InnerScalars == {StrV("x")}

\* The objects with keys among LoadKeys and the arrays of at most two
\* elements, their members drawn from vals.
ObjectsOf(vals) ==
    {ObjV(m) : m \in UNION {[ks -> vals] : ks \in SUBSET LoadKeys}}
ArraysOf(vals) ==
    {ArrV(s) : s \in UNION {[1..n -> vals] : n \in 0..2}}

InnerValues == ObjectsOf(InnerScalars) \cup ArraysOf(InnerScalars)
LoadMembers == LoadScalars \cup InnerValues
LoadObjects == ObjectsOf(LoadMembers)
LoadArrays == ArraysOf(LoadMembers)

\* The loader after a load of v that returned r.
Loaded(l, v, r) ==
    [l EXCEPT !.h = r.h, !.v = v, !.idx = r.idx, !.out = Null, !.pc = "loaded",
              !.loads = l.loads + 1]

\* LoadMap(v) on a map v; ord is the order in which the maps are visited.
LdLoadMap(v, ord) ==
    /\ ld.pc = "idle"
    /\ ld.loads < MaxLoads
    /\ ld' = Loaded(ld, v, LoadMap(ld.h, v.v, ord))
    /\ UNCHANGED notLoadVars

\* LoadSlice(v) on a slice v.
LdLoadSlice(v, ord) ==
    /\ ld.pc = "idle"
    /\ ld.loads < MaxLoads
    /\ ld' = Loaded(ld, v, LoadSlice(ld.h, v.v, ord))
    /\ UNCHANGED notLoadVars

\* ToInterface on the node returned.
LdToInterface ==
    /\ ld.pc = "loaded"
    /\ ld' = [ld EXCEPT !.out = ToInterface(ld.h, ld.idx), !.pc = "read"]
    /\ UNCHANGED notLoadVars

\* freeNodeRecursive on the node returned: its nodes go to the freelist.
LdRelease ==
    /\ ld.pc = "read"
    /\ ld.loads < MaxLoads
    /\ ld' = [ld EXCEPT !.h = freeNodeRecursive(ld.h, ld.idx), !.pc = "idle"]
    /\ UNCHANGED notLoadVars

NextLoad ==
    \/ \E v \in LoadObjects, ord \in KeyOrders : LdLoadMap(v, ord)
    \/ \E v \in LoadArrays, ord \in KeyOrders : LdLoadSlice(v, ord)
    \/ LdToInterface
    \/ LdRelease

SpecLoad == Init /\ [][NextLoad]_vars

-----------------------------------------------------------------------------
(* Claims.                                                                 *)

\* Two call results agree: the same error kind and, on success, the same value.
SameResult(r1, r2) == r1.err = r2.err /\ (r1.err = "OK" => r1.val = r2.val)

\* Read(path) in a fresh read transaction of each store.
TreeFreshRead(path) == TreeStoreRead(tree, TreeNewTransaction(tree, FALSE).txn, path).res
ArenaFreshRead(path) ==
    ArenaRead("A", arena, ArenaNewTransaction("A", arena, FALSE).txn, path).res

\* A pending update applied to a document as a patch: the value put at the
\* update's path, or the path deleted.
PatchWith(doc, u, op) == IF Len(u.path) = 0 THEN u.value ELSE applyPatch(doc, u.path, op, u.value)
RECURSIVE TreeLifo(_, _)
TreeLifo(updates, doc) ==
    IF Len(updates) = 0 THEN doc
    ELSE TreeLifo(Tail(updates),
                  PatchWith(doc, Head(updates),
                            IF Head(updates).remove THEN "remove" ELSE "add"))
RECURSIVE ArenaLifo(_, _)
ArenaLifo(updates, doc) ==
    IF Len(updates) = 0 THEN doc
    ELSE ArenaLifo(Front(updates), PatchWith(doc, Last(updates), Last(updates).op))

\* The state after a successful Commit of a write transaction with pending
\* updates.
Committed ==
    /\ res.call = "commit" /\ ttxn.write
    /\ res.tree.err = "OK" /\ res.arena.err = "OK"
    /\ Len(ttxn.updates) > 0 /\ Len(atxn.updates) > 0

\* C1: after Commit of a write transaction with pending updates U1..Un, a
\* Read(P) in a fresh read transaction gives, for every path P and in both
\* engines, what applying Un..U1 (most recent first) to the committed
\* state before the commit gives at P.  The tree engine keeps its updates
\* most recent first, the arena engine in the order recorded.
C1_CommitAppliesLifo ==
    Committed =>
        \A path \in ReadPaths :
            /\ SameResult(TreeFreshRead(path), Ptr(TreeLifo(ttxn.updates, begun.tree), path))
            /\ SameResult(ArenaFreshRead(path), Ptr(ArenaLifo(atxn.updates, begun.arena), path))

\* C2: a transaction observes its own pending writes.  In a write
\* transaction Read(P) returns what the writes accepted so far, applied in
\* the order issued to the committed document, produce at P, and NotFound
\* when they leave nothing there, in both engines.
C2_ReadSeesOwnWrites ==
    (res.call = "read" /\ ttxn.write) =>
        /\ SameResult(res.tree, Ptr(view.tree, res.path))
        /\ SameResult(res.arena, Ptr(view.arena, res.path))

\* The write transactions of store "A" that are active: begun on it and not
\* yet made stale by Commit or Abort.
LiveWriters ==
    {i \in DOMAIN handles :
        handles[i].arena = "A" /\ handles[i].write /\ ~handles[i].stale}

\* C3: at most one write transaction is active on an arena store at any
\* time.  The writer lock is held exactly while one is, so a second
\* NewTransaction(write) waits; and the lock is released only by a Commit or
\* an Abort made with the transaction that acquired it, while it is live,
\* which ends it: it cannot release the lock a second time.
C3_SingleWriter ==
    /\ [](Cardinality(LiveWriters) <= 1 /\ (store.wmu <=> LiveWriters # {}))
    /\ [][/\ (LiveWriters' \ LiveWriters # {}) => (~store.wmu /\ LiveWriters = {})
          /\ (store.wmu /\ ~store'.wmu) =>
                /\ last'.call \in {"commit", "abort"}
                /\ last'.h = acquirer
                /\ last'.pre = "live"
                /\ LiveWriters = {acquirer}
                /\ acquirer \notin LiveWriters']_vars

\* A second writer holds the lock and the first writer's transaction,
\* ended before, was handed to Commit again.
C3_Witness ==
    /\ Len(handles) = 2
    /\ handles[1].write /\ handles[1].stale /\ handles[1].arena = "A"
    /\ LiveWriters = {2}
    /\ store.wmu
    /\ last.call = "commit" /\ last.h = 1 /\ last.pre = "ended"

\* The store calls a stale transaction must reject.
RejectedCalls ==
    {"read", "write", "commit", "list", "get", "upsert", "delete", "register"}

\* C4: a stale transaction rejects all operations.  A Read, Write, Commit,
\* ListPolicies, GetPolicy, UpsertPolicy, DeletePolicy or Register made with
\* a transaction that Commit or Abort was called with before, or with a
\* transaction of another store, fails with InvalidTransaction and leaves
\* the store and every transaction as they were.
C4_StaleRejectsAll ==
    [][(last'.pre \in {"ended", "foreign"} /\ last'.call \in RejectedCalls) =>
            /\ last'.arena.err = "InvalidTransaction"
            /\ store' = store
            /\ handles' = handles]_vars

\* The calls that write: data, policies or triggers.
WritingCalls == {"write", "upsert", "delete", "register"}

\* C5: writing during a read transaction.  A Write, UpsertPolicy,
\* DeletePolicy or Register made with a live read transaction fails with
\* InvalidTransaction in both engines, and afterwards the transaction holds
\* no pending data update and no pending policy update and the stores'
\* triggers are those registered before the call.
C5_ReadTxnRejectsWrites ==
    [][(res'.call \in WritingCalls /\ phase = "open" /\ ~ttxn.write /\ ~atxn.write) =>
            /\ res'.tree.err = "InvalidTransaction"
            /\ res'.arena.err = "InvalidTransaction"
            /\ Len(ttxn'.updates) = 0 /\ DOMAIN ttxn'.policies = {}
            /\ Len(atxn'.updates) = 0 /\ Len(atxn'.policies) = 0
            /\ tree'.triggers = tree.triggers
            /\ arena'.triggers = arena.triggers]_vars

\* A Write was made with a read transaction on stores that hold a trigger
\* registered by an earlier write transaction.
C5_Witness ==
    /\ res.call = "write" /\ phase = "open" /\ ~ttxn.write /\ ~atxn.write
    /\ res.tree.err = "InvalidTransaction" /\ res.arena.err = "InvalidTransaction"
    /\ arena.triggers # {} /\ tree.triggers # {}

\* The data calls of the store contract.
DataCalls == {"begin", "write", "read", "commit", "abort"}

\* C6: the engines implement the same contract.  Along every sequence of
\* calls made on both stores from the same document, each Begin, Write,
\* Read, Commit and Abort returns the same value or the same error kind in
\* the tree engine and in the arena engine.
C6_EnginesAgree ==
    res.call \in DataCalls => SameResult(res.tree, res.arena)

\* An array index a patch may name: a position of the array, for Add also
\* the position behind the last element ("-" or the length).
IndexInRange(arr, key, op) ==
    IF op = "add" THEN key = "-" \/ (IsDecimal(key) /\ Atoi(key) <= Len(arr))
    ELSE IsDecimal(key) /\ Atoi(key) < Len(arr)

\* An invalid patch operation on the document doc: a Remove or a Replace of
\* a path that holds nothing, or an operation on an array element whose
\* index is out of range.
InvalidPatchOp(doc, op, path) ==
    \/ op \in {"remove", "replace"} /\ Ptr(doc, path).err # "OK"
    \/ /\ Ptr(doc, Front(path)).err = "OK"
       /\ Ptr(doc, Front(path)).val.t = "arr"
       /\ ~IndexInRange(Ptr(doc, Front(path)).val.v, Last(path), op)

\* C7: invalid patch operations surface as errors.  A Write below the root
\* whose operation is invalid on the document the transaction sees (the
\* committed document with the writes accepted so far) returns NotFound or
\* InvalidPatch in both engines: it is not accepted, so nothing is left to
\* be dropped or misapplied at Commit.
C7_InvalidPatchRejected ==
    [][(/\ res'.call = "write" /\ phase = "open" /\ ttxn.write /\ atxn.write
        /\ Len(res'.path) > 0) =>
            /\ InvalidPatchOp(view.tree, res'.op, res'.path) =>
                    res'.tree.err \in {"NotFound", "InvalidPatch"}
            /\ InvalidPatchOp(view.arena, res'.op, res'.path) =>
                    res'.arena.err \in {"NotFound", "InvalidPatch"}]_vars

\* C8: writes of an aborted transaction are never applied.  After Abort of
\* a live write transaction of the arena store, the committed document, the
\* committed policies and the store's root index are as they were when the
\* transaction began, the transaction is stale and the writer lock is free.
C8_AbortRestores ==
    (/\ last.call = "abort" /\ last.pre = "live" /\ last.arena.err = "OK"
     /\ handles[last.h].write) =>
        /\ Snapshot(store) = snap
        /\ handles[last.h].stale
        /\ ~store.wmu

\* C9: a removed path reads as absent.  When a Write(Remove, p) succeeded
\* in a write transaction and the next call is a Read(q) in that transaction
\* with p a prefix of q, the Read yields NotFound in both engines, whatever
\* updates were pending before the Remove.
C9_RemovedReadsNotFound ==
    [][(/\ res.call = "write" /\ res.op = "remove" /\ phase = "open"
        /\ res'.call = "read" /\ HasPrefix(res'.path, res.path)) =>
            /\ res.tree.err = "OK" => res'.tree.err = "NotFound"
            /\ res.arena.err = "OK" => res'.arena.err = "NotFound"]_vars

\* The pending updates are exactly one update of the root to value.
OneRootUpdate(updates, value) ==
    /\ Len(updates) = 1
    /\ updates[1].path = RootPath
    /\ updates[1].value = value
    /\ ~updates[1].remove

\* C10: writes at the root.  In a write transaction a Write at the empty
\* path fails with RootCannotBeRemoved when the operation is Remove and
\* with RootMustBeObject when the value is no object, the pending updates
\* staying as they were; with an object value it succeeds and the pending
\* updates become exactly one update of the root, in both engines.
C10_RootWrite ==
    [][(/\ res'.call = "write" /\ res'.path = RootPath
        /\ phase = "open" /\ ttxn.write /\ atxn.write) =>
            IF res'.op = "remove"
            THEN /\ res'.tree.err = "RootCannotBeRemoved"
                 /\ res'.arena.err = "RootCannotBeRemoved"
                 /\ ttxn'.updates = ttxn.updates /\ atxn'.updates = atxn.updates
            ELSE IF res'.value.t # "obj"
            THEN /\ res'.tree.err = "RootMustBeObject"
                 /\ res'.arena.err = "RootMustBeObject"
                 /\ ttxn'.updates = ttxn.updates /\ atxn'.updates = atxn.updates
            ELSE /\ res'.tree.err = "OK" /\ res'.arena.err = "OK"
                 /\ OneRootUpdate(ttxn'.updates, res'.value)
                 /\ OneRootUpdate(atxn'.updates, res'.value)]_vars

\* The second write of a transaction replaced the root with an object.
C10_Witness ==
    /\ res.call = "write" /\ res.path = RootPath /\ res.value.t = "obj"
    /\ res.tree.err = "OK" /\ res.arena.err = "OK"
    /\ nWrites = 2 /\ nTxns = 1 /\ phase = "open"
    /\ OneRootUpdate(ttxn.updates, res.value)
    /\ OneRootUpdate(atxn.updates, res.value)

\* Some proper prefix of path addresses a scalar of the document doc.
ThroughScalar(doc, path) ==
    \E k \in 1..(Len(path) - 1) :
        /\ Ptr(doc, SubSeq(path, 1, k)).err = "OK"
        /\ IsScalar(Ptr(doc, SubSeq(path, 1, k)).val)

\* C11: writing at a path passing through a scalar yields NotFound.  In a
\* write transaction a Write(op, P, v) with a proper prefix of P addressing
\* a scalar of the document the transaction sees (the committed document
\* with the writes accepted so far) fails with NotFound and leaves the
\* pending updates and the committed document as they were, in both engines.
C11_ScalarPathNotFound ==
    [][(res'.call = "write" /\ phase = "open" /\ ttxn.write /\ atxn.write) =>
            /\ ThroughScalar(view.tree, res'.path) =>
                    /\ res'.tree.err = "NotFound"
                    /\ ttxn'.updates = ttxn.updates
                    /\ tree'.data = tree.data
            /\ ThroughScalar(view.arena, res'.path) =>
                    /\ res'.arena.err = "NotFound"
                    /\ atxn'.updates = atxn.updates
                    /\ ArenaDoc(arena') = ArenaDoc(arena)]_vars

\* The document holds an array at path p.
ArrayAt(doc, p) == Ptr(doc, p).err = "OK" /\ Ptr(doc, p).val.t = "arr"

\* The operations on an element of the array arr that must succeed: Replace
\* and Remove at a position of the array, Add at "-".
ValidElementOp(arr, op, key) ==
    IF op = "add" THEN key = "-" ELSE IsDecimal(key) /\ Atoi(key) < Len(arr)

\* A decimal index outside the range the operation allows.
OutOfRange(arr, op, key) ==
    IsDecimal(key) /\ Atoi(key) > (IF op = "add" THEN Len(arr) ELSE Len(arr) - 1)

\* The array after a valid element operation.
ElementPatched(arr, op, key, value) ==
    CASE op = "replace" -> [arr EXCEPT ![Atoi(key) + 1] = value]
      [] op = "remove" -> RemoveAt(arr, Atoi(key))
      [] OTHER -> Append(arr, value)

\* The result err of Write(op, path, value) as the first write of a
\* transaction begun on the document doc.
ArrayWriteResult(doc, err, op, path) ==
    (Len(path) > 0 /\ ArrayAt(doc, Front(path))) =>
        /\ ValidElementOp(Ptr(doc, Front(path)).val.v, op, Last(path)) => err = "OK"
        /\ OutOfRange(Ptr(doc, Front(path)).val.v, op, Last(path)) => err = "NotFound"

\* The result err of Commit and the committed document after it, when
\* Write(op, path, value) was the only write of the transaction begun on doc.
ArrayCommitResult(doc, after, err, op, path, value) ==
    (/\ Len(path) > 0 /\ ArrayAt(doc, Front(path))
     /\ ValidElementOp(Ptr(doc, Front(path)).val.v, op, Last(path))) =>
        /\ err = "OK"
        /\ Ptr(after, Front(path)) =
              Ok(ArrV(ElementPatched(Ptr(doc, Front(path)).val.v, op, Last(path), value)))

\* C12: array elements.  With an array of length n committed at path A, a
\* write transaction whose only write is Replace at A/i (0 <= i < n),
\* Remove at A/i or Add at A/- has that Write accepted and, after Commit,
\* the array at A is the old one with exactly element i changed, with
\* exactly element i deleted, or with one element appended; a Write at a
\* decimal index outside the valid range fails with NotFound; in both engines.
C12_ArrayElements ==
    [][/\ (/\ res'.call = "write" /\ phase = "open" /\ ttxn.write /\ atxn.write
           /\ nWrites = begun.nWrites) =>
              /\ ArrayWriteResult(begun.tree, res'.tree.err, res'.op, res'.path)
              /\ ArrayWriteResult(begun.arena, res'.arena.err, res'.op, res'.path)
       /\ (/\ res'.call = "commit" /\ phase = "open" /\ ttxn.write /\ atxn.write
           /\ res.call = "write" /\ nWrites = begun.nWrites + 1) =>
              /\ ArrayCommitResult(begun.tree, tree'.data, res'.tree.err,
                                   res.op, res.path, res.value)
              /\ ArrayCommitResult(begun.arena, ArenaDoc(arena'), res'.arena.err,
                                   res.op, res.path, res.value)]_vars

\* C13: the empty path on read returns the full document.  A Read at the
\* empty path made with a live transaction succeeds in both engines and
\* returns the committed document with the transaction's accepted writes
\* applied, in every store state: also on a store as constructed, in a read
\* transaction and in a write transaction.
C13_RootReadTotal ==
    (res.call = "read" /\ res.path = RootPath) =>
        /\ res.tree = Ok(view.tree)
        /\ res.arena = Ok(view.arena)

\* The step is a Write(Add or Replace, P, x) that repeats the call before it.
RepeatedWrite ==
    /\ phase = "open"
    /\ res.call = "write" /\ res.op \in {"add", "replace"}
    /\ res'.call = "write" /\ res'.op = res.op
    /\ res'.path = res.path /\ res'.value = res.value

NoOverlap(updates) ==
    \A i, j \in 1..Len(updates) :
        i # j => ~HasPrefix(updates[j].path, updates[i].path)

\* C15: each Write compacts the pending updates.  After every successful
\* Write of a write transaction no pending update's path is equal to or a
\* prefix of another pending update's path, in both engines.
C15_UpdatesNeverOverlap ==
    (res.call = "write" /\ ttxn.write /\ atxn.write) =>
        /\ res.tree.err = "OK" => NoOverlap(ttxn.updates)
        /\ res.arena.err = "OK" => NoOverlap(atxn.updates)

\* The path p overlaps no pending update: none lies at, above or below it.
NoOverlapWith(updates, p) ==
    \A i \in 1..Len(updates) :
        ~HasPrefix(updates[i].path, p) /\ ~HasPrefix(p, updates[i].path)

\* The vector after a write at p that overlaps no pending update, most
\* recent first: the new update in front, the updates pending behind it.
\* (A write to an array element is recorded at the array's path.)
PutInFront(before, after, p) ==
    /\ Len(after) = Len(before) + 1
    /\ Tail(after) = before
    /\ HasPrefix(p, Head(after).path)

\* The paths of a sequence of updates or of data events, in order.
PathsOf(seq) == [i \in 1..Len(seq) |-> seq[i].path]

\* C16: pending updates are kept in LIFO order.  A successful Write at a
\* path that overlaps no pending update puts its update in front of the
\* vector, so that after writes to pairwise non-overlapping paths p1..pn
\* the vector lists pn first and p1 last; and a Commit with a trigger
\* registered hands over the data entries in the order of that vector; in
\* both engines.
C16_UpdatesLifo ==
    [][/\ (/\ res'.call = "write" /\ phase = "open" /\ Len(res'.path) > 0) =>
              /\ (res'.tree.err = "OK" /\ NoOverlapWith(ttxn.updates, res'.path)) =>
                    PutInFront(ttxn.updates, ttxn'.updates, res'.path)
              /\ (res'.arena.err = "OK" /\ NoOverlapWith(atxn.updates, res'.path)) =>
                    PutInFront(atxn.updates, atxn'.updates, res'.path)
       /\ (/\ res'.call = "commit" /\ phase = "open" /\ ttxn.write /\ atxn.write
           /\ tree.triggers # {} /\ arena.triggers # {}) =>
              /\ (res'.tree.err = "OK" /\ NoOverlap(ttxn.updates)) =>
                    PathsOf(Last(tree'.fired).data) = PathsOf(ttxn.updates)
              /\ (res'.arena.err = "OK" /\ NoOverlap(atxn.updates)) =>
                    PathsOf(Last(arena'.fired).data) = PathsOf(atxn.updates)]_vars

\* C17: Commit applies the updates with readers excluded.  On the arena
\* store a Read made with another live transaction while a Commit is
\* between taking and releasing rmu returns what it returns on the store as
\* it was before all of the commit's updates or on the store as it is after
\* all of them: never a document with only some applied, never the content
\* of a node the commit freed or re-used.
C17_ReadersExcluded ==
    [][(/\ committing.h # 0 /\ committing' = committing
        /\ last'.call = "read" /\ last'.h # committing.h) =>
            \/ last'.arena =
                   ArenaRead("A", committing.before, handles[last'.h], last'.path).res
            \/ last'.arena =
                   ArenaRead("A", committing.after, handles[last'.h], last'.path).res]_vars

\* C18: on the arena store every Commit of a write transaction invokes
\* each trigger registered at that moment exactly once, and no trigger that
\* was unregistered: the invocations come after all data and policy updates
\* of the transaction are applied to the committed state, and before the
\* transaction is made stale and the writer lock released.
Registered == (1..trig.regs) \ trig.gone
Times(seq, hd) == Cardinality({k \in DOMAIN seq : seq[k] = hd})
EachRegisteredOnce(seq) ==
    \A hd \in 1..MaxRegs : Times(seq, hd) = IF hd \in Registered THEN 1 ELSE 0
TriggersRun == committing.stage = "applied" /\ committing'.stage = "triggered"
CommitReturns == committing.h # 0 /\ committing'.h = 0

C18_TriggersSynchronous ==
    [][/\ TriggersRun =>
            /\ ArenaDoc(store) = ArenaDoc(committing.after)
            /\ store.policies = committing.after.policies
            /\ store.wmu /\ store'.wmu
            /\ ~handles[committing.h].stale
            /\ EachRegisteredOnce(trig'.invoked)
            /\ store.triggers # {} =>
                    Last(store'.fired) = committing.event
       /\ CommitReturns =>
            /\ committing.stage = "triggered"
            /\ EachRegisteredOnce(trig.invoked)
            /\ ~store'.wmu]_vars

\* A second Commit has returned: a trigger was unregistered before it, the
\* other one was invoked, and data and policy updates were committed.
C18_Witness ==
    /\ last.call = "commit"
    /\ committing.h = 0
    /\ trig.regs = MaxRegs
    /\ trig.gone = {1}
    /\ trig.invoked = <<2>>
    /\ Len(store.fired) = 2
    /\ ArenaDoc(store) # RaceDoc
    /\ DOMAIN store.policies # {}

\* C19: a Commit made while a trigger is registered hands the triggers an
\* event with exactly one data entry (path, value, removed) for each
\* pending data update and one policy entry (id, bytes, removed) for each
\* pending policy update; with no trigger registered the event Commit
\* builds has no entry; the committed data and policies are the same in
\* both cases.  In both engines.
SameEntries(s1, s2) ==
    /\ Len(s1) = Len(s2)
    /\ \A k \in DOMAIN s1 : Times(s1, s1[k]) = Times(s2, s1[k])

\* The entries the pending policy updates of each engine call for.
TreePolicyEntry(id, upd) ==
    [id |-> id, data |-> IF upd.remove THEN NoBytes ELSE lazyGet(upd.value),
     removed |-> upd.remove]
TreePolicyEntries(txn, ids) ==
    [k \in DOMAIN ids |-> TreePolicyEntry(ids[k], txn.policies[ids[k]])]
ArenaPolicyEntries(txn) ==
    [k \in DOMAIN txn.policies |-> PolicyEvent(txn.policies[k])]

\* The store with the triggers registered the other way round.
Flipped(db) == [db EXCEPT !.triggers = IF @ = {} THEN {1} ELSE {}]

\* A write transaction is committed and the call returns normally.
CommitsWrite ==
    /\ phase = "open"
    /\ ttxn.write /\ atxn.write
    /\ res'.call = "commit"
    /\ res'.tree.err = "OK" /\ res'.arena.err = "OK"

TreeEventComplete ==
    /\ tree.triggers # {} =>
        /\ Len(tree'.fired) = Len(tree.fired) + 1
        /\ SameEntries(Last(tree'.fired).data, DataEvents(ttxn.updates))
        /\ \E ord \in KeyOrders :
            SameEntries(Last(tree'.fired).policy,
                        TreePolicyEntries(ttxn, KeysIn(ord, ttxn.policies)))
    /\ tree.triggers = {} =>
        /\ tree'.fired = tree.fired
        /\ \A ord \in KeyOrders : TreeCommit(ttxn, tree, ord).event = NoEvent
    /\ \E ord \in KeyOrders :
        /\ tree'.data = TreeCommit(ttxn, Flipped(tree), ord).db.data
        /\ tree'.policies = TreeCommit(ttxn, Flipped(tree), ord).db.policies

ArenaEventComplete ==
    /\ arena.triggers # {} =>
        /\ Len(arena'.fired) = Len(arena.fired) + 1
        /\ SameEntries(Last(arena'.fired).data, DataEvents(atxn.updates))
        /\ SameEntries(Last(arena'.fired).policy, ArenaPolicyEntries(atxn))
    /\ arena.triggers = {} =>
        /\ arena'.fired = arena.fired
        /\ \A ord \in KeyOrders : ArenaTxnCommit(atxn, arena, ord).event = NoEvent
    /\ \E ord \in KeyOrders :
        /\ ArenaDoc(arena') = ArenaDoc(ArenaTxnCommit(atxn, Flipped(arena), ord).a)
        /\ arena'.policies = ArenaTxnCommit(atxn, Flipped(arena), ord).a.policies

C19_EventPerUpdate ==
    [][CommitsWrite => TreeEventComplete /\ ArenaEventComplete]_vars

\* C20: in both engines the policies are a transactional map from id to
\* bytes.  Inside a transaction GetPolicy gives the bytes the transaction
\* upserted last, NotFound for an id it deleted and the committed policy
\* for an id it did not touch, and ListPolicies lists every id GetPolicy
\* finds exactly once and no other; after Commit a new transaction finds
\* for every id what the committed transaction found; until Commit no
\* other transaction finds anything changed.
TreeGets(db, txn, id) == TreeStoreGetPolicy(db, txn, id).res
ArenaGets(a, txn, id) == ArenaGetPolicy("A", a, txn, id).res

\* What a transaction begun now on the store finds.
TreeSees(db, id) == TreeGets(db, TreeNewTransaction(db, FALSE).txn, id)
ArenaSees(a, id) == ArenaGets(a, ArenaNewTransaction("A", a, FALSE).txn, id)

\* The list l holds exactly the ids found, each once; found(id) is the
\* result of GetPolicy.
ListsLive(l, found(_)) ==
    /\ l.err = "OK"
    /\ \A id \in SessionIds :
          Times(l.val.v, id) = IF found(id).err = "OK" THEN 1 ELSE 0
    /\ Len(l.val.v) = Cardinality({id \in SessionIds : found(id).err = "OK"})

OwnListsLive ==
    \A ord \in KeyOrders :
        /\ ListsLive(TreeStoreListPolicies(tree, ttxn, ord).res,
                     LAMBDA id : TreeGets(tree, ttxn, id))
        /\ ListsLive(ArenaListPolicies("A", arena, atxn, ord).res,
                     LAMBDA id : ArenaGets(arena, atxn, id))

\* The result GetPolicy(id) is to give after the call res' when it gave
\* before in that transaction.
Layered(call, before, id) ==
    IF call.op # id THEN before
    ELSE IF call.call = "upsert" THEN Ok(call.value)
    ELSE Err("NotFound")

OwnWritesSeen ==
    \A id \in SessionIds :
        /\ TreeGets(tree', ttxn', id) =
              IF res'.tree.err = "OK" THEN Layered(res', TreeGets(tree, ttxn, id), id)
              ELSE TreeGets(tree, ttxn, id)
        /\ ArenaGets(arena', atxn', id) =
              IF res'.arena.err = "OK" THEN Layered(res', ArenaGets(arena, atxn, id), id)
              ELSE ArenaGets(arena, atxn, id)

BeginsOnCommitted ==
    \A id \in SessionIds :
        /\ TreeGets(tree', ttxn', id) = TreeSees(tree, id)
        /\ ArenaGets(arena', atxn', id) = ArenaSees(arena, id)

CommitPublishes ==
    \A id \in SessionIds :
        /\ TreeSees(tree', id) = TreeGets(tree, ttxn, id)
        /\ ArenaSees(arena', id) = ArenaGets(arena, atxn, id)

NothingPublished ==
    \A id \in SessionIds :
        /\ TreeSees(tree', id) = TreeSees(tree, id)
        /\ ArenaSees(arena', id) = ArenaSees(arena, id)

C20_PoliciesTransactional ==
    [][/\ phase = "open" => OwnListsLive
       /\ (phase = "open" /\ res'.call \in {"upsert", "delete"}) => OwnWritesSeen
       /\ (phase = "idle" /\ res'.call = "begin") => BeginsOnCommitted
       /\ (phase = "open" /\ res'.call = "commit") => CommitPublishes
       /\ (phase = "open" /\ res'.call # "commit") => NothingPublished]_vars

\* A read transaction begun after the Commit of two policy writes finds the
\* bytes upserted last under "p" and nothing under "q", in both engines.
C20_Witness ==
    /\ res.call = "get"
    /\ res.op = "q"
    /\ res.tree.err = "NotFound" /\ res.arena.err = "NotFound"
    /\ phase = "open"
    /\ ~ttxn.write /\ ~atxn.write
    /\ nWrites = 2
    /\ TreeGets(tree, ttxn, "p") = Ok(StrV("m2"))
    /\ ArenaGets(arena, atxn, "p") = Ok(StrV("m2"))

\* C21: the PolicyStore is a map to its caller.  After any Upsert and
\* Delete calls, Get(id) returns the bytes of the latest Upsert(id) not
\* followed by Delete(id) and NotFound otherwise, List returns the live
\* ids, each once, Len is their number, and every call returns.
StoreGetsLive ==
    psRes.call = "get" =>
        psRes.res = IF psRes.id \in DOMAIN psLive THEN Ok(StrV(psLive[psRes.id]))
                    ELSE Err("NotFound")
StoreListsLive ==
    psRes.call = "list" =>
        /\ psRes.res.err = "OK"
        /\ Len(psRes.res.val.v) = Cardinality(DOMAIN psLive)
        /\ \A id \in DOMAIN psLive : Times(psRes.res.val.v, id) = 1
StoreCountsLive ==
    psRes.call = "len" => psRes.res = Ok(Cardinality(DOMAIN psLive))

C21_StoreIsMap ==
    /\ psRes.res.err # "Hang"
    /\ StoreGetsLive
    /\ StoreListsLive
    /\ StoreCountsLive

\* C22: for every path p, of any number of segments, each of any bytes,
\* empty ones and ones with "/" or "%" included, ParsePathEscaped of
\* p.String() succeeds and returns a path Equal to p.
C22_EscapedRoundTrip ==
    pth.call = "escaped" => pth.r.ok /\ Equal(pth.r.path, pth.p)

\* C23: for every path p, ParsePath of p.String() succeeds and returns a
\* path Equal to p.
C23_PlainRoundTrip ==
    pth.call = "parse" => pth.r.ok /\ Equal(pth.r.path, pth.p)

\* C24: the strings InternPathSegment returned for segments of at most 32
\* bytes that are equal are one instance, whichever thread called and
\* whichever instance the argument was: equal means identical.
C24_OneInstance ==
    \A r1 \in itn.rets : \A r2 \in itn.rets :
        (Len(r1.val) <= MaxInternedLen /\ r1.val = r2.val) => r1.inst = r2.inst

\* C25: a full sweep of the scavenger leaves every node that was a
\* tombstone when it began reset to Free and on the freelist exactly once,
\* and a sweep frees no node that is not a tombstone.
OnFreelist(h, i) == Times(FreeList(h), i)
SweptToFreelist ==
    sw.swept => \A i \in sw.pre :
        NodeAt(sw.a.h, i).vType = "free" /\ OnFreelist(sw.a.h, i) = 1
RootIsObject ==
    sw.a.rootIdx # -1 =>
        /\ NodeAt(sw.a.h, sw.a.rootIdx).vType = "obj"
        /\ OnFreelist(sw.a.h, sw.a.rootIdx) = 0
ChainEnds(c) == \A j \in DOMAIN c : \A k \in DOMAIN c : c[j] = c[k] => j = k
ChainLive(h, c) ==
    \A k \in DOMAIN c : NodeAt(h, c[k]).vType # "free" /\ OnFreelist(h, c[k]) = 0
IxPrefixes ==
    {q \in 1..Len(ix.before.updates) :
        /\ Len(ix.before.updates[q].path) < Len(ix.call.path)
        /\ HasPrefix(ix.call.path, ix.before.updates[q].path)}

\* The last Write left every pending update but the q-th as it found it.
IxOthersKept(q) ==
    /\ Len(ix.txn.updates) = Len(ix.before.updates)
    /\ \A i \in 1..Len(ix.before.updates) :
        i # q => ix.txn.updates[i] = ix.before.updates[i]

\* The last Write left at position q the update it found there, with the
\* operation applied to its value at the rest of the path.
IxFolded(q) ==
    ix.txn.updates[q] =
        [ix.before.updates[q] EXCEPT
            !.value = applyPatch(@, Suffix(ix.call.path, Len(ix.before.updates[q].path)),
                                 ix.call.op, ix.call.value)]

\* C28: in the tree engine, when a pending update that is not a Remove exists
\* at a proper prefix Q of P, a successful Write(op, P, v) changes only that
\* update's value, to its previous value with op applied at P minus Q, and
\* leaves the number and the order of the pending updates unchanged; when the
\* pending update at Q is a Remove, the Write fails with NotFound.
C28_FoldChangesValueOnly ==
    ix.call.err # "none" =>
        \A q \in IxPrefixes :
            /\ ix.before.updates[q].remove => ix.call.err = "NotFound"
            /\ (~ix.before.updates[q].remove /\ ix.call.err = "OK") =>
                    IxOthersKept(q) /\ IxFolded(q)

\* C29: whenever the path index of a write transaction exists, its entries
\* are exactly (formatted path of the update at position i, i) for every i:
\* as many entries as updates, every index in range and pointing at the
\* update with that path.
C29_IndexMatchesUpdates ==
    ix.txn.pathIndex.on =>
        /\ Cardinality(DOMAIN ix.txn.pathIndex.m) = Len(ix.txn.updates)
        /\ \A k \in DOMAIN ix.txn.pathIndex.m :
            /\ ix.txn.pathIndex.m[k] \in 0..(Len(ix.txn.updates) - 1)
            /\ PathString(ix.txn.updates[ix.txn.pathIndex.m[k] + 1].path) = k

\* C30: the path index is a pure optimisation: each Write returns the same
\* result and leaves the same pending updates (paths, values, remove flags)
\* whether the exact-path lookup uses the index or the linear scan.
C30_IndexIsOptimisation ==
    ix.call.err # "none" =>
        /\ ix.call.err = ix.linear.err
        /\ ix.txn.updates = ix.linear.updates

\* The error kinds a Write returns for its arguments.
WriteErrors == {"NotFound", "InvalidPatch", "RootCannotBeRemoved", "RootMustBeObject"}

\* C31: a Write that returns an error (NotFound, InvalidPatch,
\* RootCannotBeRemoved, RootMustBeObject) leaves the transaction's pending
\* updates and its path index exactly as they were before the call.
C31_FailedWriteKeepsUpdates ==
    ix.call.err \in WriteErrors =>
        /\ ix.txn.updates = ix.before.updates
        /\ ix.txn.pathIndex = ix.before.pathIndex

\* A step that commits a write transaction in both engines.
CommitsBoth ==
    /\ phase = "open" /\ ttxn.write
    /\ res'.call = "commit"
    /\ res'.tree.err = "OK" /\ res'.arena.err = "OK"

\* Read(path) in the open transaction gives what Read(path) in a fresh read
\* transaction gives after the step.
TreeViewCommitted(path) ==
    SameResult(TreeStoreRead(tree, ttxn, path).res, TreeFreshRead(path)')
ArenaViewCommitted(path) ==
    SameResult(ArenaRead("A", arena, atxn, path).res, ArenaFreshRead(path)')

\* C32: the pending view equals the committed result: for every write
\* transaction and every path P, Read(P) in that transaction immediately
\* before its Commit returns the same outcome (same value, or NotFound in
\* both) as Read(P) in a fresh read transaction immediately after that
\* Commit, in both engines.
C32_PendingViewIsCommitted ==
    [][CommitsBoth =>
        \A path \in ReadPaths : TreeViewCommitted(path) /\ ArenaViewCommitted(path)]_vars

\* The nodes allocated in the arena a that are neither reached from the
\* root, nor on the freelist, nor tombstones.
Leaked(a) ==
    {i \in 0..(a.h.nodeCnt - 1) :
        /\ i \notin FromRoot(a)
        /\ Times(FreeList(a.h), i) = 0
        /\ i \notin TombsOf(a.h)}

\* C33: the arena leaks no nodes: after every commit, each node index below
\* the allocated-node count is reachable from the root, on the freelist, or
\* a tombstone, whatever the commit loaded, replaced or removed.
C33_NoLeakedNodes ==
    (res.call = "commit" /\ res.arena.err = "OK") => Leaked(arena) = {}

\* C34: under every interleaving of a scavenger sweep with a writer's
\* allocation, the scavenger never accesses a node index whose segment has
\* not yet been created: the allocated-node count is never observable ahead
\* of the creation of the segment that holds the counted index.
C34_SweepSeesCreatedSegments == ~al.fault

\* The chain of the policy store from node curr reaches -1 within fuel nodes.
RECURSIVE PsChainEnds(_, _)
PsChainEnds(curr, fuel) ==
    IF curr = -1 THEN TRUE
    ELSE IF fuel = 0 THEN FALSE
    ELSE PsChainEnds(ps.nodes[curr + 1].next, fuel - 1)

\* C35: after any sequence of Upsert and Delete calls on a PolicyStore,
\* Upsert of a new id after a Delete included, the chain starting at head is
\* acyclic and reaches -1, so every Get, List, Upsert and Delete call
\* terminates.
C35_PolicyChainEnds ==
    /\ PsChainEnds(ps.head, Len(ps.nodes))
    /\ psRes.res.err # "Hang"

\* The places of a goroutine inside NewTransaction and inside Commit of a
\* write transaction.
InBegin == {"wmu", "rlock", "snapshot"}
InCommit == {"rmu", "data", "grow", "loaded", "pmu", "applied", "triggers", "count"}

LoadedEmpty == ld.v \in {EmptyObj, ArrV(<<>>)}
C38_LoadThenMaterialize ==
    /\ ld.pc = "read" => ld.out = ld.v
    /\ ld.pc \in {"loaded", "read"} =>
          /\ ~ld.h.panic
          /\ NodeAt(ld.h, ld.idx).vType = ld.v.t
          /\ LoadedEmpty => AsChildIndex(NodeAt(ld.h, ld.idx)) = -1

\* A nested object holding an empty array and a two-element array has been
\* loaded into an arena whose freelist held the nodes of an earlier value,
\* and has been read back.
C38_Witness ==
    /\ ld.pc = "read"
    /\ ld.loads = MaxLoads
    /\ ld.v = ObjV(("a" :> ArrV(<<>>)) @@ ("b" :> ArrV(<<StrV("x"), StrV("x")>>)))
    /\ ld.out = ld.v

\* The last Write looked its exact path up through the path index: it was
\* not a root write, and the transaction held the index or held enough
\* updates to build it (txn.go 71-78).
IxUsedIndex ==
    /\ ix.call.err # "none"
    /\ Len(ix.call.path) > 0
    /\ ix.before.pathIndex.on \/ Len(ix.before.updates) >= pathIndexThreshold

\* C39: a Write looks its exact path up through the path index exactly when
\* the transaction holds 16 or more pending updates at that moment, and a
\* transaction that holds fewer than 16 pending updates holds no path index.
C39_IndexOnlyFromThreshold ==
    /\ (ix.call.err # "none" /\ Len(ix.call.path) > 0) =>
          (IxUsedIndex <=> Len(ix.before.updates) >= pathIndexThreshold)
    /\ Len(ix.txn.updates) < pathIndexThreshold => ~ix.txn.pathIndex.on

\* C40: under every interleaving of concurrent InternPathSegment calls the
\* intern table only grows: every step keeps each entry with the instance
\* it holds (so that one instance at most is ever stored for a string), and
\* no key of the table is longer than 32 bytes.
C40_InternTableGrows ==
    [][/\ \A val \in DOMAIN itn.tbl :
            val \in DOMAIN itn'.tbl /\ itn'.tbl[val] = itn.tbl[val]
       /\ \A val \in DOMAIN itn'.tbl : Len(val) <= MaxInternedLen]_vars

\* A caller waits for the write lock with a string that the other caller,
\* with an instance of its own, has stored and returned in the meantime.
C40_Witness ==
    \E t \in InternThreads, u \in InternThreads :
        /\ itn.th[t].pc = "lock"
        /\ itn.th[t].s.val \in DOMAIN itn.tbl
        /\ itn.tbl[itn.th[t].s.val] # itn.th[t].s.inst
        /\ itn.th[u].pc = "done"
        /\ itn.th[u].ret = Str(itn.th[t].s.val, itn.tbl[itn.th[t].s.val])

====
